---------------------------- MODULE Spec2Model ----------------------------
(***************************************************************************)
(* A model of the capnproto wire-format runtime: the packed stream codec   *)
(* (serialize-packed.c++), the read limiter, segments and arenas (arena.h, *)
(* arena.c++) and the layout engine (layout.c++).                          *)
(*                                                                         *)
(* A word is a tuple of 8 bytes in wire (little-endian) order; a segment   *)
(* is a sequence of words.  Word addresses are 0-based, as in the C++      *)
(* pointer arithmetic; w[i+1] is byte i of w.                              *)
(***************************************************************************)
EXTENDS Integers, Sequences, FiniteSets, TLC

VARIABLES pk, rd, bd, fr

vars == <<pk, rd, bd, fr>>

\* the value of a component that takes no part in a specification
Off == [pc |-> "off"]

\* ------------------------------------------------------------------------
\* Small helpers

Min(a, b) == IF a < b THEN a ELSE b

Max(a, b) == IF a > b THEN a ELSE b

\* memset-style fill: n copies of x
Repeat(x, n) == [i \in 1..n |-> x]

\* the bytes of a sequence of words
Flatten(ws) == [i \in 1..(8 * Len(ws)) |-> ws[((i - 1) \div 8) + 1][((i - 1) % 8) + 1]]

\* the value a uint8_t store keeps
U8(n) == n % 256

\* bit i of byte b
Bit(b, i) == (b \div (2 ^ i)) % 2

BYTES_PER_WORD == 8

ZeroWord == <<0, 0, 0, 0, 0, 0, 0, 0>>

\* ------------------------------------------------------------------------
\* Packed codec: PackedOutputStream::write / PackedInputStream::read

\* the longest run one count byte can announce
RunCap == 255

\* size of PackedOutputStream's slowBuffer
SlowBufferSize == 20

\* bytes the fast paths need in a buffer (tag + 8 bytes + count)
FastPathBytes == 10

\* the 8 bytes of the word starting at byte offset p of s
WordAt(s, p) == SubSeq(s, p + 1, p + 8)

\* number of zero bytes in a word
ZeroBytes(w) == Cardinality({i \in 1..8 : w[i] = 0})

\* tag byte: bit i set iff byte i is non-zero
TagOf(w) ==
    (IF w[1] # 0 THEN 1 ELSE 0) + (IF w[2] # 0 THEN 2 ELSE 0)
  + (IF w[3] # 0 THEN 4 ELSE 0) + (IF w[4] # 0 THEN 8 ELSE 0)
  + (IF w[5] # 0 THEN 16 ELSE 0) + (IF w[6] # 0 THEN 32 ELSE 0)
  + (IF w[7] # 0 THEN 64 ELSE 0) + (IF w[8] # 0 THEN 128 ELSE 0)

\* the non-zero bytes of a word, in order
NonZeroBytes(w) == SelectSeq(w, LAMBDA b : b # 0)

\* the word boundaries p, p+8, .. up to limit
WordStops(p, limit) == {p + 8 * k : k \in 0..(Max(limit - p, 0) \div 8)}

\* the least element of a non-empty set of offsets
FirstOf(S) == CHOOSE m \in UNION {{q \in T : \A q2 \in T : q <= q2} : T \in {S}} : TRUE

\* a zero-run scan that ignores the 255-word limit
ZeroRunNoCap(s, p, limit) ==
    FirstOf({q \in WordStops(p, Len(s)) : ~(q < Len(s) /\ WordAt(s, q) = ZeroWord)})

\* write(): while (inWord < limit && *inWord == 0) ++inWord;
\* p = current byte offset, limit = byte offset the scan stops at
ZeroRunFrom(s, p, limit) ==
    FirstOf({q \in WordStops(p, limit) : ~(q < limit /\ WordAt(s, q) = ZeroWord)})

\* the scan for a verbatim run without the un-read (in -= 8) of the word that
\* ends it
VerbatimRunNoUnread(s, p, limit) ==
    LET stop == FirstOf({q \in WordStops(p, limit) :
                           ~(q < limit /\ ZeroBytes(WordAt(s, q)) < 2)})
    IN  IF stop < limit THEN stop + BYTES_PER_WORD ELSE stop

\* write(): scan words until one has two or more zero bytes (which is un-read)
VerbatimRunFrom(s, p, limit) ==
    FirstOf({q \in WordStops(p, limit) : ~(q < limit /\ ZeroBytes(WordAt(s, q)) < 2)})

\* BufferedOutputStream::getWriteBuffer of the inner stream: the unused rest of a
\* buffer of B bytes after `written` bytes went to the stream
GetWriteBuffer(written, B) == B - (written % B)

\* the loop body with a verbatim run cut to the room left in the buffer
WriteWordFitting(src, B, w) ==
    LET w1 == IF w.cap - Len(w.out) < FastPathBytes
                THEN [w EXCEPT !.stream = @ \o w.out, !.out = <<>>, !.cap = SlowBufferSize]
                ELSE w
        word == WordAt(src, w1.in)
        tag == TagOf(word)
        out1 == w1.out \o <<tag>> \o NonZeroBytes(word)
        in1 == w1.in + 8
    IN  IF tag = 0
          THEN LET limit == Min(Len(src), in1 + RunCap * BYTES_PER_WORD)
                   stop == ZeroRunFrom(src, in1, limit)
               IN  [w1 EXCEPT !.in = stop,
                              !.out = out1 \o <<U8((stop - in1) \div BYTES_PER_WORD)>>]
        ELSE IF tag = 255
          THEN LET limit == Min(Len(src), in1 + RunCap * BYTES_PER_WORD)
                   stop == VerbatimRunFrom(src, in1, limit)
                   count == stop - in1
                   out2 == out1 \o <<U8(count \div BYTES_PER_WORD)>>
                   room == w1.cap - Len(out2)
               IN  [w1 EXCEPT !.in = stop,
                              !.out = out2 \o SubSeq(src, in1 + 1, in1 + Min(count, room))]
        ELSE [w1 EXCEPT !.in = in1, !.out = out1]

\* one iteration of the while loop of PackedOutputStream::write.  w.in: input
\* offset; w.out: bytes encoded into the current buffer; w.cap: size of the
\* current buffer; w.stream: bytes handed to inner.write so far
WriteWord(src, B, w) ==
    LET w1 == IF w.cap - Len(w.out) < FastPathBytes
                THEN [w EXCEPT !.stream = @ \o w.out, !.out = <<>>, !.cap = SlowBufferSize]
                ELSE w
        word == WordAt(src, w1.in)
        tag == TagOf(word)
        out1 == w1.out \o <<tag>> \o NonZeroBytes(word)
        in1 == w1.in + 8
    IN  IF tag = 0
          THEN LET limit == Min(Len(src), in1 + RunCap * BYTES_PER_WORD)
                   stop == ZeroRunFrom(src, in1, limit)
               IN  [w1 EXCEPT !.in = stop,
                              !.out = out1 \o <<U8((stop - in1) \div BYTES_PER_WORD)>>]
        ELSE IF tag = 255
          THEN LET limit == Min(Len(src), in1 + RunCap * BYTES_PER_WORD)
                   stop == VerbatimRunFrom(src, in1, limit)
                   count == stop - in1
                   out2 == out1 \o <<U8(count \div BYTES_PER_WORD)>>
                   run == SubSeq(src, in1 + 1, stop)
               IN  IF count <= w1.cap - Len(out2)
                     THEN [w1 EXCEPT !.in = stop, !.out = out2 \o run]
                     ELSE [in |-> stop, out |-> <<>>,
                           cap |-> GetWriteBuffer(Len(w1.stream) + Len(out2) + count, B),
                           stream |-> w1.stream \o out2 \o run]
        ELSE [w1 EXCEPT !.in = in1, !.out = out1]

RECURSIVE WriteLoop(_, _, _)
\* write(): while (in < inEnd) { ... }, then the final inner.write.  (The
\* one-element set binds the state after an iteration as a value.)
WriteLoop(src, B, w) ==
    IF w.in >= Len(src)
      THEN w.stream \o w.out
      ELSE CHOOSE res \in {WriteLoop(src, B, w2) : w2 \in {WriteWord(src, B, w)}} : TRUE

\* PackedOutputStream::write(src, size) onto an empty inner stream whose write
\* buffer holds B bytes: the bytes the inner stream receives
PackedWrite(src, B) ==
    WriteLoop(src, B, [in |-> 0, out |-> <<>>, cap |-> GetWriteBuffer(0, B), stream |-> <<>>])


\* a byte of dst that read() never wrote (the "garbage" the code returns after
\* an error)
Unwritten == -1

\* BufferedInputStream::getReadBuffer of the inner stream: the bytes from the
\* stream position ipos to the end of its current buffer of C bytes (empty at the
\* end of the stream).  Returns the end offset.
ReadBufferEnd(s, ipos, C) == Min(Len(s), ((ipos \div C) + 1) * C)

\* the return statements of read()
Return(r, n) == [r EXCEPT !.done = TRUE, !.ret = n]

Fail(r, n) == [r EXCEPT !.done = TRUE, !.ret = n, !.err = TRUE]

\* REFRESH_BUFFER() without inner.skip(buffer.size()): the inner stream hands
\* out the buffer it handed out before
RefreshBufferNoSkip(s, C, r, minBytes) ==
    LET ipos == r.bstart
        bend == ReadBufferEnd(s, ipos, C)
        r1 == [r EXCEPT !.ipos = ipos, !.bstart = ipos, !.bend = bend, !.in = ipos]
    IN  IF bend - ipos > 0 THEN r1 ELSE Fail(r1, minBytes)

\* REFRESH_BUFFER(): inner.skip(buffer.size()); buffer = inner.getReadBuffer();
\* VALIDATE_INPUT(buffer.size() > 0) { return minBytes; }; in = buffer.begin()
RefreshBuffer(s, C, r, minBytes) ==
    LET ipos == r.bend
        bend == ReadBufferEnd(s, ipos, C)
        r1 == [r EXCEPT !.ipos = ipos, !.bstart = ipos, !.bend = bend, !.in = ipos]
    IN  IF bend - ipos > 0 THEN r1 ELSE Fail(r1, minBytes)

\* read(): one round of the bounds-checked loop, for byte i of the word
SlowByte(s, C, r, tag, i, minBytes) ==
    IF Bit(tag, i) = 1
      THEN LET r1 == IF r.bend - r.in = 0 THEN RefreshBuffer(s, C, r, minBytes) ELSE r
           IN  IF r1.done THEN r1
               ELSE [r1 EXCEPT !.out = Append(@, s[r1.in + 1]), !.in = @ + 1]
      ELSE [r EXCEPT !.out = Append(@, 0)]

RECURSIVE SlowBytes(_, _, _, _, _, _)
\* read(): for (uint i = 0; i < 8; i++) with a bounds check on each byte; a
\* failed refresh returns from read()
SlowBytes(s, C, r, tag, i, minBytes) ==
    IF r.done \/ i = 8 THEN r
    ELSE CHOOSE res \in {SlowBytes(s, C, r2, t, j, minBytes) :
                           r2 \in {SlowByte(s, C, r, tag, i, minBytes)}, t \in {tag},
                           j \in {i + 1}} : TRUE

\* number of set bits of tag below bit i
BitsBelow(tag, i) == Cardinality({j \in 0..(i - 1) : Bit(tag, j) = 1})

\* HANDLE_BYTE without the mask of the tag bit: byte i of the word is the input
\* byte at the cursor whether or not bit i of the tag is set
FastBytesUnmasked(s, r, tag) ==
    [r EXCEPT !.out = @ \o [i \in 1..8 |-> s[r.in + BitsBelow(tag, i - 1) + 1]],
              !.in = @ + BitsBelow(tag, 8)]

\* read(): HANDLE_BYTE(0) .. HANDLE_BYTE(7), no bounds checks: byte i of the
\* word is the next input byte if bit i of the tag is set, else zero
FastBytes(s, r, tag) ==
    [r EXCEPT !.out = @ \o [i \in 1..8 |-> IF Bit(tag, i - 1) = 1
                                             THEN s[r.in + BitsBelow(tag, i - 1) + 1]
                                             ELSE 0],
              !.in = @ + BitsBelow(tag, 8)]

\* inner.read(out, n): n bytes from the inner stream at ipos; past the end of the
\* stream the inner stream reports the error and the bytes stay unwritten
InnerRead(s, ipos, n) ==
    [bytes |-> SubSeq(s, ipos + 1, Min(Len(s), ipos + n))
                 \o Repeat(Unwritten, ipos + n - Len(s)),
     err |-> ipos + n > Len(s)]

\* read(): the end of an iteration reached without `continue`
EndOfWord(r, maxBytes) ==
    IF Len(r.out) = maxBytes THEN Return([r EXCEPT !.ipos = r.in], maxBytes) ELSE r

\* the zero run without its VALIDATE_INPUT(runLength <= outEnd - out)
ZeroRunUnchecked(s, r1, minBytes, maxBytes) ==
    LET runLength == s[r1.in + 1] * BYTES_PER_WORD
        r2 == [r1 EXCEPT !.in = @ + 1]
    IN  EndOfWord([r2 EXCEPT !.out = @ \o Repeat(0, runLength)], maxBytes)

\* read(): if (tag == 0) { ... }, r1 being the state after the word's bytes
ZeroRun(s, r1, minBytes, maxBytes) ==
    LET runLength == s[r1.in + 1] * BYTES_PER_WORD
        r2 == [r1 EXCEPT !.in = @ + 1]
    IN  IF ~(runLength <= maxBytes - Len(r2.out))
          THEN Fail(r2, Max(minBytes, Len(r2.out)))
          ELSE EndOfWord([r2 EXCEPT !.out = @ \o Repeat(0, runLength)], maxBytes)

\* read(): else if (tag == 0xffu) { ... }
VerbatimRun(s, C, r1, minBytes, maxBytes) ==
    LET runLength == s[r1.in + 1] * BYTES_PER_WORD
        r2 == [r1 EXCEPT !.in = @ + 1]
        inRemaining == r2.bend - r2.in
    IN  IF ~(runLength <= maxBytes - Len(r2.out))
          THEN Fail(r2, Max(minBytes, Len(r2.out)))
        ELSE IF inRemaining >= runLength
          THEN \* fast path
               EndOfWord([r2 EXCEPT !.out = @ \o SubSeq(s, r2.in + 1, r2.in + runLength),
                                    !.in = @ + runLength], maxBytes)
          ELSE \* copy over the first buffer, then one big read for the rest
               LET rest == runLength - inRemaining
                   got == InnerRead(s, r2.bend, rest)
                   ipos == Min(Len(s), r2.bend + rest)
                   r3 == [r2 EXCEPT !.out = @ \o SubSeq(s, r2.in + 1, r2.bend) \o got.bytes,
                                    !.err = @ \/ got.err,
                                    !.ipos = ipos]
               IN  IF Len(r2.out) + runLength = maxBytes
                     THEN Return(r3, maxBytes)
                     ELSE [r3 EXCEPT !.bstart = ipos, !.bend = ReadBufferEnd(s, ipos, C),
                                     !.in = ipos]

\* read(): the rest of an iteration once the tag and the word's bytes are read
AfterBytes(s, C, r1, tag, minBytes, maxBytes) ==
    IF r1.done THEN r1
    ELSE IF tag = 0 THEN ZeroRun(s, r1, minBytes, maxBytes)
    ELSE IF tag = 255 THEN VerbatimRun(s, C, r1, minBytes, maxBytes)
    ELSE EndOfWord(r1, maxBytes)

\* read(): the word's bytes on the bounds-checked path, and the refresh before
\* a run's count byte
SlowWord(s, C, r0, tag, minBytes) ==
    CHOOSE res \in {IF ~q.done /\ q.bend - q.in = 0 /\ (tag = 0 \/ tag = 255)
                      THEN RefreshBuffer(s, C, q, minBytes)
                      ELSE q : q \in {SlowBytes(s, C, r0, tag, 0, minBytes)}} : TRUE

\* one iteration of the for (;;) loop of PackedInputStream::read
ReadWord(s, C, r, minBytes, maxBytes) ==
    IF r.bend - r.in < FastPathBytes /\ Len(r.out) >= minBytes
      THEN \* read at least the minimum amount
           Return([r EXCEPT !.ipos = r.in], Len(r.out))
    ELSE IF r.bend - r.in = 0
      THEN RefreshBuffer(s, C, r, minBytes)
    ELSE CHOOSE res \in {AfterBytes(s, C, r1, s[r.in + 1], minBytes, maxBytes) :
                           r1 \in {IF r.bend - r.in < FastPathBytes
                                     THEN SlowWord(s, C, [r EXCEPT !.in = @ + 1], s[r.in + 1],
                                                   minBytes)
                                     ELSE FastBytes(s, [r EXCEPT !.in = @ + 1], s[r.in + 1])}} :
           TRUE

RECURSIVE ReadLoop(_, _, _, _, _)
\* the for (;;) loop of PackedInputStream::read
ReadLoop(s, C, r, minBytes, maxBytes) ==
    IF r.done THEN r
    ELSE CHOOSE res \in {ReadLoop(s, C, r2, minBytes, maxBytes) :
                           r2 \in {ReadWord(s, C, r, minBytes, maxBytes)}} : TRUE

\* PackedInputStream::read(dst, minBytes, maxBytes) on an inner stream holding s,
\* positioned at ipos, with read buffers of C bytes.  Result: out = the bytes
\* written to dst, ret = the return value, err = a validation error was
\* recorded, ipos = the inner stream's position afterwards.
PackedRead(s, C, ipos0, minBytes, maxBytes) ==
    LET bend == ReadBufferEnd(s, ipos0, C)
        r == [ipos |-> ipos0, bstart |-> ipos0, bend |-> bend, in |-> ipos0,
              out |-> <<>>, err |-> FALSE, ret |-> 0, done |-> FALSE]
    IN  IF maxBytes = 0 THEN Return(r, 0)
        ELSE IF ~(bend - ipos0 > 0) THEN Fail(r, minBytes)
        ELSE ReadLoop(s, C, r, minBytes, maxBytes)

\* ------------------------------------------------------------------------
\* WirePointer: one word; offsetAndKind in bytes 0..3, the kind-dependent
\* half in bytes 4..7 (all little-endian)

STRUCT == 0

LIST == 1

FAR == 2

RESERVED_3 == 3

\* FieldSize codes
VOID == 0

BIT == 1

BYTE == 2

TWO_BYTES == 3

FOUR_BYTES == 4

EIGHT_BYTES == 5

POINTER == 6

INLINE_COMPOSITE == 7

POINTER_SIZE_IN_WORDS == 1

BITS_PER_WORD == 64

dataBitsPerElement(es) ==
    CASE es = BIT -> 1 [] es = BYTE -> 8 [] es = TWO_BYTES -> 16
      [] es = FOUR_BYTES -> 32 [] es = EIGHT_BYTES -> 64 [] OTHER -> 0

pointersPerElement(es) == IF es = POINTER THEN 1 ELSE 0

\* kind(): offsetAndKind & 3
Kind(w) == w[1] % 4

\* offsetAndKind >> 2 as an unsigned 30-bit field
OffsetField(w) == (w[1] \div 4) + 64 * w[2] + 16384 * w[3] + 4194304 * w[4]

\* offsetAndKind >> 2 without the cast to int32_t: a logical shift
SignedOffsetLogicalShift(w) == OffsetField(w)

\* static_cast<int32_t>(offsetAndKind) >> 2: the field as a signed offset
SignedOffset(w) ==
    IF OffsetField(w) >= 536870912 THEN OffsetField(w) - 1073741824 ELSE OffsetField(w)

\* target(): this + 1 + offset, for a pointer word w at word address a
Target(a, w) == a + 1 + SignedOffset(w)

inlineCompositeListElementCount(w) == OffsetField(w)

farPositionInSegment(w) == OffsetField(w) \div 2

isDoubleFar(w) == OffsetField(w) % 2 = 1

\* structRef
dataSize(w) == w[5] + 256 * w[6]

ptrCount(w) == w[7] + 256 * w[8]

wordSize(w) == dataSize(w) + ptrCount(w)

\* listRef
elementSize(w) == w[5] % 8

elementCount(w) == (w[5] \div 8) + 32 * w[6] + 8192 * w[7] + 2097152 * w[8]

inlineCompositeWordCount(w) == elementCount(w)

\* farRef.segmentId, a uint32, as <<low 16 bits, high 16 bits>>
segmentId(w) == <<w[5] + 256 * w[6], w[7] + 256 * w[8]>>

isNull(w) == w = ZeroWord

\* the four bytes of offsetAndKind for a 30-bit field u and a kind
OffsetAndKind(u, kind) ==
    <<(u % 64) * 4 + kind, (u \div 64) % 256, (u \div 16384) % 256, (u \div 4194304) % 256>>

\* the two bytes of a WireValue<uint16_t>
LE16(n) == <<n % 256, (n \div 256) % 256>>

\* setKindAndTarget(kind, target) on the pointer word w at address a: the low
\* 30 bits of target - this - 1, shifted, or-ed with the kind; the upper half is kept
setKindAndTarget(w, a, kind, target) ==
    OffsetAndKind((target - a - 1) % 1073741824, kind) \o SubSeq(w, 5, 8)

setKindAndInlineCompositeListElementCount(w, kind, count) ==
    OffsetAndKind(count % 1073741824, kind) \o SubSeq(w, 5, 8)

\* setFar(isDoubleFar, pos)
setFar(w, dbl, pos) ==
    OffsetAndKind(((pos % 536870912) * 2) + (IF dbl THEN 1 ELSE 0), FAR) \o SubSeq(w, 5, 8)

\* structRef.set(ds, rc)
structRefSet(w, ds, rc) == SubSeq(w, 1, 4) \o LE16(ds) \o LE16(rc)

\* listRef.set(es, ec): (ec << 3) | es
listRefSet(w, es, ec) ==
    SubSeq(w, 1, 4)
      \o <<(ec % 32) * 8 + es, (ec \div 32) % 256, (ec \div 8192) % 256, (ec \div 2097152) % 256>>

\* farRef.set(segmentId), for ids below 2^16
farRefSet(w, id) == SubSeq(w, 1, 4) \o LE16(id) \o <<0, 0>>

\* roundUpToWords(BitCount64 bits)
roundUpBitsToWords(bits) == (bits + 63) \div BITS_PER_WORD

\* roundUpToWords(ElementCount64(count) * step) for a step of 0, 1, 8, 16, 32 or
\* 64 bits: the 64-bit product is never formed, count elements are grouped
\* 64 / step to a word
ListWordCount(count, step) ==
    IF step = 0 THEN 0 ELSE (count + (BITS_PER_WORD \div step) - 1) \div (BITS_PER_WORD \div step)

\* roundUpToWords(ByteCount bytes)
roundUpBytesToWords(bytes) == (bytes + 7) \div BYTES_PER_WORD

\* byte i (0-based) of a non-negative integer
ByteOf(n, i) == (n \div (256 ^ i)) % 256

\* a * b in uint32_t arithmetic (the product wraps at 2^32), as its four bytes
WrapMul32(a, b) ==
    LET c0 == ByteOf(a, 0) * ByteOf(b, 0)
        c1 == ByteOf(a, 0) * ByteOf(b, 1) + ByteOf(a, 1) * ByteOf(b, 0) + (c0 \div 256)
        c2 == ByteOf(a, 0) * ByteOf(b, 2) + ByteOf(a, 1) * ByteOf(b, 1)
                + ByteOf(a, 2) * ByteOf(b, 0) + (c1 \div 256)
        c3 == ByteOf(a, 0) * ByteOf(b, 3) + ByteOf(a, 1) * ByteOf(b, 2)
                + ByteOf(a, 2) * ByteOf(b, 1) + ByteOf(a, 3) * ByteOf(b, 0) + (c2 \div 256)
    IN  <<c0 % 256, c1 % 256, c2 % 256, c3 % 256>>

\* x <= n for a uint32_t x given by its bytes and 0 <= n < 2^31
U32Leq(x, n) == x[4] < 128 /\ x[1] + 256 * x[2] + 65536 * x[3] + 16777216 * x[4] <= n

\* ------------------------------------------------------------------------
\* ReadLimiter, SegmentReader and ReaderArena.  A message is a sequence of
\* segments, segment id i being mem[i + 1]; a segment is a sequence of words.
\* The reading context c carries the limiter and the validation errors
\* recorded so far: c.limit (words left), c.errs (errors recorded), and the
\* history c.total (words granted by containsInterval), c.refused (a
\* containsInterval call was refused by the limiter) and c.fatal (a debug
\* precondition did not hold, or memory outside the message was read: a
\* build that checks stops there).

\* no segment (nullptr)
NoSegment == -1

\* the word at address a of segment seg
WordOf(mem, seg, a) == mem[seg + 1][a + 1]

\* a validation error is recorded (VALIDATE_INPUT failing in recoverable mode)
Report(c) == [c EXCEPT !.errs = @ + 1]

\* DPRECOND(cond, ...): compiled out of a release build; in a debug build a
\* failure goes to inlinePreconditionFailure, which does not return
DPRECOND(cond, c) == IF cond THEN c ELSE [c EXCEPT !.fatal = TRUE]

\* ReaderArena::reportReadLimitReached
reportReadLimitReached(c) == [Report(c) EXCEPT !.refused = TRUE]

\* a limiter that grants every request
canReadAlways(c, amount) ==
    [ok |-> TRUE, c |-> [c EXCEPT !.limit = @ - amount, !.total = @ + amount]]

\* a limiter that grants every request and keeps its limit
canReadFree(c, amount) == [ok |-> TRUE, c |-> c]

\* ReadLimiter::canRead(amount, arena)
canRead(c, amount) ==
    IF amount > c.limit
      THEN [ok |-> FALSE, c |-> reportReadLimitReached(c)]
      ELSE [ok |-> TRUE, c |-> [c EXCEPT !.limit = @ - amount, !.total = @ + amount]]

\* containsInterval that asks the limiter before it looks at the endpoints
containsIntervalLimiterFirst(mem, c, seg, from, to) ==
    IF canRead(c, to - from).ok /\ ~(from >= 0 /\ to <= Len(mem[seg + 1]))
      THEN [ok |-> FALSE, c |-> canRead(c, to - from).c]
      ELSE canRead(c, to - from)

\* SegmentReader::containsInterval(from, to), from and to as word addresses
containsInterval(mem, c, seg, from, to) ==
    IF from >= 0 /\ to <= Len(mem[seg + 1])
      THEN canRead(c, to - from)
      ELSE [ok |-> FALSE, c |-> c]

\* WireHelpers::boundsCheck on a checked message
boundsCheck(mem, c, seg, start, end) == containsInterval(mem, c, seg, start, end)

\* ReaderArena::tryGetSegment(id): the segment, or NoSegment
tryGetSegment(mem, id) == IF id[2] = 0 /\ id[1] < Len(mem) THEN id[1] ELSE NoSegment

\* a followFars that gives up on a far pointer it cannot follow without
\* recording the failure
followFarsSilent(mem, c, ref, segment) ==
    LET w == WordOf(mem, ref.s, ref.a)
    IN  IF Kind(w) = FAR
          THEN LET seg1 == tryGetSegment(mem, segmentId(w))
                   ptr == farPositionInSegment(w)
                   padWords == (1 + (IF isDoubleFar(w) THEN 1 ELSE 0)) * POINTER_SIZE_IN_WORDS
               IN  IF seg1 = NoSegment
                     THEN [null |-> TRUE, ptr |-> 0, ref |-> ref, segment |-> seg1, c |-> c]
                   ELSE LET bc == boundsCheck(mem, c, seg1, ptr, ptr + padWords)
                        IN  IF ~bc.ok
                              THEN [null |-> TRUE, ptr |-> 0, ref |-> ref, segment |-> seg1,
                                    c |-> bc.c]
                            ELSE LET pad == WordOf(mem, seg1, ptr)
                                 IN  IF ~isDoubleFar(w)
                                       THEN [null |-> FALSE, ptr |-> Target(ptr, pad),
                                             ref |-> [s |-> seg1, a |-> ptr], segment |-> seg1,
                                             c |-> bc.c]
                                       ELSE LET seg2 == tryGetSegment(mem, segmentId(pad))
                                            IN  IF seg2 = NoSegment
                                                  THEN [null |-> TRUE, ptr |-> 0,
                                                        ref |-> [s |-> seg1, a |-> ptr + 1],
                                                        segment |-> seg2, c |-> Report(bc.c)]
                                                  ELSE [null |-> FALSE,
                                                        ptr |-> farPositionInSegment(pad),
                                                        ref |-> [s |-> seg1, a |-> ptr + 1],
                                                        segment |-> seg2,
                                                        c |-> DPRECOND(Kind(pad) = FAR, bc.c)]
          ELSE [null |-> FALSE, ptr |-> Target(ref.a, w), ref |-> ref, segment |-> segment, c |-> c]

\* WireHelpers::followFars (reader).  ref = [s, a]: segment and address of the
\* pointer word; segment: the segment the pointer is resolved against.
\* Result: null (nullptr returned), ptr (the target address), ref and segment
\* as updated through the reference parameters, c.
followFars(mem, c, ref, segment) ==
    LET w == WordOf(mem, ref.s, ref.a)
    IN  IF Kind(w) = FAR
          THEN LET seg1 == tryGetSegment(mem, segmentId(w))
                   ptr == farPositionInSegment(w)
                   padWords == (1 + (IF isDoubleFar(w) THEN 1 ELSE 0)) * POINTER_SIZE_IN_WORDS
               IN  IF seg1 = NoSegment
                     THEN [null |-> TRUE, ptr |-> 0, ref |-> ref, segment |-> seg1, c |-> Report(c)]
                   ELSE LET bc == boundsCheck(mem, c, seg1, ptr, ptr + padWords)
                        IN  IF ~bc.ok
                              THEN [null |-> TRUE, ptr |-> 0, ref |-> ref, segment |-> seg1,
                                    c |-> Report(bc.c)]
                            ELSE LET pad == WordOf(mem, seg1, ptr)
                                 IN  IF ~isDoubleFar(w)
                                       THEN [null |-> FALSE, ptr |-> Target(ptr, pad),
                                             ref |-> [s |-> seg1, a |-> ptr], segment |-> seg1,
                                             c |-> bc.c]
                                       ELSE LET seg2 == tryGetSegment(mem, segmentId(pad))
                                            IN  IF seg2 = NoSegment
                                                  THEN [null |-> TRUE, ptr |-> 0,
                                                        ref |-> [s |-> seg1, a |-> ptr + 1],
                                                        segment |-> seg2, c |-> Report(bc.c)]
                                                  ELSE [null |-> FALSE,
                                                        ptr |-> farPositionInSegment(pad),
                                                        ref |-> [s |-> seg1, a |-> ptr + 1],
                                                        segment |-> seg2,
                                                        c |-> DPRECOND(Kind(pad) = FAR, bc.c)]
          ELSE [null |-> FALSE, ptr |-> Target(ref.a, w), ref |-> ref, segment |-> segment, c |-> c]

\* StructReader(): the default reader
DefaultStructReader ==
    [type |-> "struct", segment |-> NoSegment, data |-> 0, pointers |-> 0,
     dataSize |-> 0, pointerCount |-> 0, nestingLimit |-> 0]

\* StructReader(segment, data, pointers, dataSize (bits), pointerCount, bit0Offset, nestingLimit)
StructReader(segment, data, pointers, dataBits, pointerCount, nestingLimit) ==
    [type |-> "struct", segment |-> segment, data |-> data, pointers |-> pointers,
     dataSize |-> dataBits, pointerCount |-> pointerCount, nestingLimit |-> nestingLimit]

\* a readStructPointer that descends whatever the nesting limit
readStructPointerUnlimited(mem, c, segment, ref, nestingLimit) ==
    IF isNull(WordOf(mem, ref.s, ref.a)) THEN [r |-> DefaultStructReader, c |-> c]
    ELSE LET f == followFars(mem, c, ref, segment)
             w == WordOf(mem, f.ref.s, f.ref.a)
         IN  IF f.null THEN [r |-> DefaultStructReader, c |-> f.c]
             ELSE IF Kind(w) # STRUCT THEN [r |-> DefaultStructReader, c |-> Report(f.c)]
             ELSE LET bc == boundsCheck(mem, f.c, f.segment, f.ptr, f.ptr + wordSize(w))
                  IN  IF ~bc.ok THEN [r |-> DefaultStructReader, c |-> Report(bc.c)]
                      ELSE [r |-> StructReader(f.segment, f.ptr, f.ptr + dataSize(w),
                                               dataSize(w) * BITS_PER_WORD, ptrCount(w),
                                               nestingLimit - 1),
                            c |-> bc.c]

\* WireHelpers::readStructPointer with no default value
readStructPointer(mem, c, segment, ref, nestingLimit) ==
    IF isNull(WordOf(mem, ref.s, ref.a)) THEN [r |-> DefaultStructReader, c |-> c]
    ELSE IF ~(nestingLimit > 0) THEN [r |-> DefaultStructReader, c |-> Report(c)]
    ELSE LET f == followFars(mem, c, ref, segment)
             w == WordOf(mem, f.ref.s, f.ref.a)
         IN  IF f.null THEN [r |-> DefaultStructReader, c |-> f.c]
             ELSE IF Kind(w) # STRUCT THEN [r |-> DefaultStructReader, c |-> Report(f.c)]
             ELSE LET bc == boundsCheck(mem, f.c, f.segment, f.ptr, f.ptr + wordSize(w))
                  IN  IF ~bc.ok THEN [r |-> DefaultStructReader, c |-> Report(bc.c)]
                      ELSE [r |-> StructReader(f.segment, f.ptr, f.ptr + dataSize(w),
                                               dataSize(w) * BITS_PER_WORD, ptrCount(w),
                                               nestingLimit - 1),
                            c |-> bc.c]

\* ListReader(): the default (empty) reader
DefaultListReader ==
    [type |-> "list", segment |-> NoSegment, ptr |-> 0, elementCount |-> 0, step |-> 0,
     structDataSize |-> 0, structPointerCount |-> 0, nestingLimit |-> 0]

\* ListReader(segment, ptr, elementCount, step (bits), structDataSize (bits),
\* structPointerCount, nestingLimit)
ListReader(segment, ptr, count, step, dataBits, pointerCount, nestingLimit) ==
    [type |-> "list", segment |-> segment, ptr |-> ptr, elementCount |-> count, step |-> step,
     structDataSize |-> dataBits, structPointerCount |-> pointerCount,
     nestingLimit |-> nestingLimit]

\* readListPointer, the INLINE_COMPOSITE branch; f: result of followFars,
\* w: the resolved list pointer
readInlineCompositeList(mem, f, w, expectedElementSize, nestingLimit) ==
    LET wordCount == inlineCompositeWordCount(w)
        ptr == f.ptr + POINTER_SIZE_IN_WORDS
        bc == boundsCheck(mem, f.c, f.segment, ptr - POINTER_SIZE_IN_WORDS, ptr + wordCount)
        tag == WordOf(mem, f.segment, f.ptr)
        size == inlineCompositeListElementCount(tag)
        wordsPerElement == wordSize(tag)
        result(p) == [r |-> ListReader(f.segment, p, size, wordsPerElement * BITS_PER_WORD,
                                       dataSize(tag) * BITS_PER_WORD, ptrCount(tag),
                                       nestingLimit - 1),
                      c |-> bc.c]
        default == [r |-> DefaultListReader, c |-> Report(bc.c)]
    IN  IF ~bc.ok THEN default
        ELSE IF Kind(tag) # STRUCT THEN default
        ELSE IF ~U32Leq(WrapMul32(size, wordsPerElement), wordCount) THEN default
        ELSE IF expectedElementSize = BIT THEN default
        ELSE IF expectedElementSize \in {BYTE, TWO_BYTES, FOUR_BYTES, EIGHT_BYTES}
          THEN IF dataSize(tag) > 0 THEN result(ptr) ELSE default
        ELSE IF expectedElementSize = POINTER
          THEN IF ptrCount(tag) > 0 THEN result(ptr + dataSize(tag)) ELSE default
        ELSE result(ptr)

\* readListPointer, the primitive / pointer list branch
readPlainList(mem, f, w, expectedElementSize, nestingLimit) ==
    LET dataBits == dataBitsPerElement(elementSize(w))
        pointerCount == pointersPerElement(elementSize(w))
        step == dataBits + pointerCount * BITS_PER_WORD
        bc == boundsCheck(mem, f.c, f.segment, f.ptr,
                          f.ptr + ListWordCount(elementCount(w), step))
        default == [r |-> DefaultListReader, c |-> Report(bc.c)]
    IN  IF ~bc.ok THEN default
        ELSE IF ~(dataBitsPerElement(expectedElementSize) <= dataBits) THEN default
        ELSE IF ~(pointersPerElement(expectedElementSize) <= pointerCount) THEN default
        ELSE [r |-> ListReader(f.segment, f.ptr, elementCount(w), step, dataBits, pointerCount,
                               nestingLimit - 1),
              c |-> bc.c]

\* WireHelpers::readListPointer with no default value
readListPointer(mem, c, segment, ref, expectedElementSize, nestingLimit) ==
    IF isNull(WordOf(mem, ref.s, ref.a)) THEN [r |-> DefaultListReader, c |-> c]
    ELSE IF ~(nestingLimit > 0) THEN [r |-> DefaultListReader, c |-> Report(c)]
    ELSE LET f == followFars(mem, c, ref, segment)
             w == WordOf(mem, f.ref.s, f.ref.a)
         IN  IF f.null THEN [r |-> DefaultListReader, c |-> f.c]
             ELSE IF Kind(w) # LIST THEN [r |-> DefaultListReader, c |-> Report(f.c)]
             ELSE IF elementSize(w) = INLINE_COMPOSITE
               THEN readInlineCompositeList(mem, f, w, expectedElementSize, nestingLimit)
               ELSE readPlainList(mem, f, w, expectedElementSize, nestingLimit)

\* byte i of the bytes starting at word address ptr of segment seg
ByteAt(mem, seg, ptr, i) == WordOf(mem, seg, ptr + (i \div 8))[(i % 8) + 1]

\* Text::Reader / Data::Reader (ptr, size): size bytes at word address ptr
BlobReader(type, segment, ptr, size) ==
    [type |-> type, segment |-> segment, ptr |-> ptr, size |-> size]

\* the default text "" and the default (empty) data
DefaultBlobReader(type) == BlobReader(type, NoSegment, 0, 0)

\* a readTextPointer that does not look at the last byte
readTextPointerUnterminated(mem, c, segment, ref) ==
    IF isNull(WordOf(mem, ref.s, ref.a)) THEN [r |-> DefaultBlobReader("text"), c |-> c]
    ELSE LET f == followFars(mem, c, ref, segment)
             w == WordOf(mem, f.ref.s, f.ref.a)
             size == elementCount(w)
             bc == boundsCheck(mem, f.c, f.segment, f.ptr,
                               f.ptr + roundUpBytesToWords(elementCount(w)))
             default(cc) == [r |-> DefaultBlobReader("text"), c |-> Report(cc)]
         IN  IF f.null THEN [r |-> DefaultBlobReader("text"), c |-> f.c]
             ELSE IF Kind(w) # LIST THEN default(f.c)
             ELSE IF elementSize(w) # BYTE THEN default(f.c)
             ELSE IF ~bc.ok THEN default(bc.c)
             ELSE IF ~(size > 0) THEN default(bc.c)
             ELSE [r |-> BlobReader("text", f.segment, f.ptr, size - 1), c |-> bc.c]

\* WireHelpers::readTextPointer with no default value
readTextPointer(mem, c, segment, ref) ==
    IF isNull(WordOf(mem, ref.s, ref.a)) THEN [r |-> DefaultBlobReader("text"), c |-> c]
    ELSE LET f == followFars(mem, c, ref, segment)
             w == WordOf(mem, f.ref.s, f.ref.a)
             size == elementCount(w)
             bc == boundsCheck(mem, f.c, f.segment, f.ptr,
                               f.ptr + roundUpBytesToWords(elementCount(w)))
             default(cc) == [r |-> DefaultBlobReader("text"), c |-> Report(cc)]
         IN  IF f.null THEN [r |-> DefaultBlobReader("text"), c |-> f.c]
             ELSE IF Kind(w) # LIST THEN default(f.c)
             ELSE IF elementSize(w) # BYTE THEN default(f.c)
             ELSE IF ~bc.ok THEN default(bc.c)
             ELSE IF ~(size > 0) THEN default(bc.c)
             ELSE IF ByteAt(mem, f.segment, f.ptr, size - 1) # 0 THEN default(bc.c)
             ELSE [r |-> BlobReader("text", f.segment, f.ptr, size - 1), c |-> bc.c]

\* WireHelpers::readDataPointer with no default value
readDataPointer(mem, c, segment, ref) ==
    IF isNull(WordOf(mem, ref.s, ref.a)) THEN [r |-> DefaultBlobReader("data"), c |-> c]
    ELSE LET f == followFars(mem, c, ref, segment)
             w == WordOf(mem, f.ref.s, f.ref.a)
             bc == boundsCheck(mem, f.c, f.segment, f.ptr,
                               f.ptr + roundUpBytesToWords(elementCount(w)))
             default(cc) == [r |-> DefaultBlobReader("data"), c |-> Report(cc)]
         IN  IF f.null THEN [r |-> DefaultBlobReader("data"), c |-> f.c]
             ELSE IF Kind(w) # LIST THEN default(f.c)
             ELSE IF elementSize(w) # BYTE THEN default(f.c)
             ELSE IF ~bc.ok THEN default(bc.c)
             ELSE [r |-> BlobReader("data", f.segment, f.ptr, elementCount(w)), c |-> bc.c]

\* ObjectReader(): the null object
DefaultObjectReader == [type |-> "null", segment |-> NoSegment]

\* readObjectPointer, case WirePointer::LIST
readObjectList(mem, f, w, nestingLimit) ==
    IF ~(nestingLimit > 0) THEN [r |-> DefaultObjectReader, c |-> Report(f.c)]
    ELSE IF elementSize(w) = INLINE_COMPOSITE
      THEN LET wordCount == inlineCompositeWordCount(w)
               ptr == f.ptr + POINTER_SIZE_IN_WORDS
               bc == boundsCheck(mem, f.c, f.segment, ptr - POINTER_SIZE_IN_WORDS,
                                 ptr + wordCount)
               tag == WordOf(mem, f.segment, f.ptr)
               count == inlineCompositeListElementCount(tag)
               wordsPerElement == wordSize(tag)
           IN  IF ~bc.ok THEN [r |-> DefaultObjectReader, c |-> Report(bc.c)]
               ELSE IF Kind(tag) # STRUCT THEN [r |-> DefaultObjectReader, c |-> Report(bc.c)]
               ELSE [r |-> ListReader(f.segment, ptr, count, wordsPerElement * BITS_PER_WORD,
                                      dataSize(tag) * BITS_PER_WORD, ptrCount(tag),
                                      nestingLimit - 1),
                     \* the overrun check has no recovery block
                     c |-> IF U32Leq(WrapMul32(wordsPerElement, count), wordCount)
                             THEN bc.c ELSE Report(bc.c)]
      ELSE LET dataBits == dataBitsPerElement(elementSize(w))
               pointerCount == pointersPerElement(elementSize(w))
               step == dataBits + pointerCount * BITS_PER_WORD
               wordCount == ListWordCount(elementCount(w), step)
               bc == boundsCheck(mem, f.c, f.segment, f.ptr, f.ptr + wordCount)
           IN  IF ~bc.ok THEN [r |-> DefaultObjectReader, c |-> Report(bc.c)]
               ELSE [r |-> ListReader(f.segment, f.ptr, elementCount(w), step, dataBits,
                                      pointerCount, nestingLimit - 1),
                     c |-> bc.c]

\* WireHelpers::readObjectPointer with no default value
readObjectPointer(mem, c, segment, ref, nestingLimit) ==
    IF isNull(WordOf(mem, ref.s, ref.a)) THEN [r |-> DefaultObjectReader, c |-> c]
    ELSE LET f == followFars(mem, c, ref, segment)
             w == WordOf(mem, f.ref.s, f.ref.a)
         IN  IF f.null THEN [r |-> DefaultObjectReader, c |-> f.c]
             ELSE IF Kind(w) = STRUCT
               THEN IF ~(nestingLimit > 0) THEN [r |-> DefaultObjectReader, c |-> Report(f.c)]
                    ELSE LET bc == boundsCheck(mem, f.c, f.segment, f.ptr, f.ptr + wordSize(w))
                         IN  IF ~bc.ok THEN [r |-> DefaultObjectReader, c |-> Report(bc.c)]
                             ELSE [r |-> StructReader(f.segment, f.ptr, f.ptr + dataSize(w),
                                                      dataSize(w) * BITS_PER_WORD, ptrCount(w),
                                                      nestingLimit - 1),
                                   c |-> bc.c]
             ELSE IF Kind(w) = LIST THEN readObjectList(mem, f, w, nestingLimit)
             ELSE [r |-> DefaultObjectReader, c |-> Report(f.c)]

\* StructReader::readRoot(location, segment, nestingLimit), location being
\* word 0 of segment 0
readRoot(mem, c, nestingLimit) ==
    LET bc == boundsCheck(mem, c, 0, 0, POINTER_SIZE_IN_WORDS)
    IN  IF ~bc.ok THEN [r |-> DefaultStructReader, c |-> Report(bc.c)]
        ELSE readStructPointer(mem, bc.c, 0, [s |-> 0, a |-> 0], nestingLimit)

\* ListReader::getStructElement(index), for a step of whole words
getStructElement(l, index) ==
    IF ~(l.nestingLimit > 0) THEN DefaultStructReader
    ELSE LET structData == l.ptr + index * (l.step \div BITS_PER_WORD)
         IN  StructReader(l.segment, structData, structData + l.structDataSize \div BITS_PER_WORD,
                          l.structDataSize, l.structPointerCount, l.nestingLimit - 1)

\* ListReader::getStructElement(index) with its context: the failed nesting
\* check is a validation error
getStructElementChecked(l, index, c) ==
    [r |-> getStructElement(l, index), c |-> IF l.nestingLimit > 0 THEN c ELSE Report(c)]

\* ------------------------------------------------------------------------
\* Reading a message: word constructors for the messages, then the readers
\* as a state machine

\* a struct pointer (or, for an inline-composite tag, off = the element count)
StructPtr(off, ds, rc) ==
    structRefSet(OffsetAndKind(off % 1073741824, STRUCT) \o <<0, 0, 0, 0>>, ds, rc)

ListPtr(off, es, ec) ==
    listRefSet(OffsetAndKind(off % 1073741824, LIST) \o <<0, 0, 0, 0>>, es, ec)

FarPtr(dbl, pos, id) == farRefSet(setFar(ZeroWord, dbl, pos), id)

\* longest first segment, in words, built freely from the word palette
MaxSegWords == 2

\* accessor calls made on one arena
MaxReads == 3

\* largest interval, in words, containsInterval is asked for directly
MaxRequest == 4

\* greatest pointer or element index the accessors are called with, plus one
MaxIndex == 2

\* the nesting limit the arena is read with
NestingLimit == 4

\* traversal limits the arena is created with
ReaderLimits == {3, 12}

\* well-formed and malicious words
ReaderWords ==
    { ZeroWord,
      StructPtr(0, 1, 1),                     \* struct in the next words
      StructPtr(-1, 0, 1),                    \* a struct that is its own pointer: a cycle
      ListPtr(0, BYTE, 3),                    \* three bytes in the next word
      <<97, 98, 0, 0, 0, 0, 0, 0>>,           \* "ab" and its NUL
      <<97, 98, 99, 100, 101, 102, 103, 104>>,
      ListPtr(0, INLINE_COMPOSITE, 0),        \* struct list of no words: only a tag
      ListPtr(0, INLINE_COMPOSITE, 1),
      StructPtr(1, 1, 0),                     \* as a tag: 1 element of 1 data word
      StructPtr(5, 1, 0),                     \* out of bounds; as a tag: 5 elements
      StructPtr(65536, 65535, 1),             \* as a tag: 2^16 elements of 2^16 words
      ListPtr(0, POINTER, 1),
      ListPtr(0, EIGHT_BYTES, 536870911),
      FarPtr(FALSE, 0, 1),
      FarPtr(TRUE, 2, 1),
      FarPtr(TRUE, 3, 1),                     \* second pad word out of bounds
      FarPtr(FALSE, 0, 7),                    \* no such segment
      <<3, 0, 0, 0, 0, 0, 0, 0>> }            \* reserved kind

\* a second segment: a landing pad with its struct, and a double-far pad
\* (far pointer to word 1 of segment 0, then the tag)
SecondSegment ==
    <<StructPtr(0, 1, 0), <<7, 0, 0, 0, 0, 0, 0, 0>>, FarPtr(FALSE, 1, 0), StructPtr(0, 1, 0)>>

RECURSIVE SeqsOver(_, _)
\* all sequences of at most n elements of S
SeqsOver(S, n) ==
    IF n = 0 THEN {<<>>}
    ELSE LET shorter == SeqsOver(S, n - 1)
         IN  shorter \cup {Append(q, w) : q \in {x \in shorter : Len(x) = n - 1}, w \in S}

\* longer messages: a struct whose pointer is a struct list, a text, a pointer list
LongerSegments ==
    { <<StructPtr(0, 0, 1), ListPtr(0, INLINE_COMPOSITE, 2), StructPtr(2, 1, 0),
        <<1, 0, 0, 0, 0, 0, 0, 0>>, <<2, 0, 0, 0, 0, 0, 0, 0>> >>,
      <<StructPtr(0, 0, 1), ListPtr(0, INLINE_COMPOSITE, 2), StructPtr(1, 1, 1),
        <<1, 0, 0, 0, 0, 0, 0, 0>>, ListPtr(-1, BYTE, 3), <<97, 98, 0, 0, 0, 0, 0, 0>> >>,
      <<StructPtr(0, 0, 1), ListPtr(0, INLINE_COMPOSITE, 0), StructPtr(5, 1, 0)>>,
      <<StructPtr(0, 0, 1), ListPtr(0, INLINE_COMPOSITE, 0), StructPtr(65536, 65535, 1)>>,
      <<StructPtr(0, 0, 1), ListPtr(0, INLINE_COMPOSITE, 1), StructPtr(5, 1, 0),
        <<1, 0, 0, 0, 0, 0, 0, 0>> >>,
      <<StructPtr(0, 1, 2), <<9, 0, 0, 0, 0, 0, 0, 0>>, ListPtr(1, POINTER, 2),
        StructPtr(2, 1, 0), StructPtr(-3, 1, 2), ListPtr(0, BYTE, 3),
        <<97, 98, 0, 0, 0, 0, 0, 0>> >> }

\* messages with far pointers as fields and elements: unknown segments,
\* landing pads outside their segment, and double-far pads that do not start
\* with a far pointer
FarSegments ==
    { <<FarPtr(TRUE, 1, 0), StructPtr(6, 0, 0), StructPtr(0, 1, 0),
        <<9, 0, 0, 0, 0, 0, 0, 0>> >>,
      <<StructPtr(0, 0, 2), FarPtr(FALSE, 9, 0), FarPtr(TRUE, 3, 1)>>,
      <<StructPtr(0, 0, 1), FarPtr(TRUE, 2, 0), StructPtr(8, 0, 0), StructPtr(0, 1, 0),
        <<9, 0, 0, 0, 0, 0, 0, 0>> >>,
      <<StructPtr(0, 0, 1), ListPtr(0, POINTER, 3), FarPtr(TRUE, 1, 0), FarPtr(FALSE, 9, 0),
        FarPtr(FALSE, 0, 7)>>,
      <<StructPtr(0, 0, 1), ListPtr(0, POINTER, 2), FarPtr(TRUE, 4, 0), FarPtr(TRUE, 3, 1),
        StructPtr(12, 0, 0), ListPtr(0, BYTE, 3), <<97, 98, 0, 0, 0, 0, 0, 0>> >> }

\* messages with byte lists as fields and elements: empty, terminated,
\* unterminated and longer than the segment
TextSegments ==
    { <<StructPtr(0, 0, 2), ListPtr(1, BYTE, 0), ListPtr(0, BYTE, 9),
        <<97, 98, 99, 100, 101, 102, 103, 104>> >>,
      <<StructPtr(0, 0, 2), ListPtr(1, BYTE, 8), ListPtr(0, BYTE, 3),
        <<97, 0, 99, 100, 101, 102, 103, 0>> >>,
      <<StructPtr(0, 0, 1), ListPtr(0, POINTER, 2), ListPtr(1, BYTE, 0), ListPtr(0, BYTE, 8),
        <<97, 98, 99, 100, 101, 102, 103, 104>> >> }

\* messages with pointers of the reserved kind as fields and elements
ReservedKindSegments ==
    { <<StructPtr(0, 0, 2), <<3, 0, 0, 0, 0, 0, 0, 0>>, <<7, 0, 0, 0, 1, 0, 0, 0>> >>,
      <<StructPtr(0, 0, 1), ListPtr(0, POINTER, 2), <<3, 0, 0, 0, 0, 0, 0, 0>>,
        <<7, 0, 0, 0, 1, 0, 0, 0>> >> }

\* the messages read: one segment, or two
ReaderMessages ==
    LET first == SeqsOver(ReaderWords, MaxSegWords) \cup LongerSegments \cup FarSegments
                   \cup TextSegments \cup ReservedKindSegments
    IN  {<<q>> : q \in first} \cup {<<q, SecondSegment>> : q \in first}

ReadingContext(limit) ==
    [limit |-> limit, errs |-> 0, total |-> 0, refused |-> FALSE, fatal |-> FALSE]

InitReader ==
    /\ \E m \in ReaderMessages, L \in ReaderLimits :
         rd = [mem |-> m, L |-> L, N |-> NestingLimit, c |-> ReadingContext(L),
               before |-> ReadingContext(L), op |-> "none", arg |-> <<>>, res |-> DefaultObjectReader,
               cur |-> DefaultObjectReader, from |-> DefaultObjectReader, n |-> 0]
    /\ pk = Off /\ bd = Off /\ fr = Off

\* no reader: the accessor did not return
Aborted == [type |-> "abort", segment |-> NoSegment]

\* one accessor was called on the reader cur: its result becomes the reader the
\* next accessors are called on, and the reader it was called on is kept in from
Accessed(op, arg, out) ==
    /\ rd.n < MaxReads
    /\ \E stops \in {FALSE} \cup {out.c.fatal} :
         rd' = IF stops
                 THEN \* a debug build, or a read that faults: the process is ended
                      \* inside the accessor
                      [rd EXCEPT !.op = "abort", !.arg = <<op>> \o arg, !.res = Aborted,
                                 !.cur = Aborted, !.from = rd.cur, !.before = rd.c,
                                 !.c = out.c, !.n = MaxReads]
                 ELSE [rd EXCEPT !.op = op, !.arg = arg, !.res = out.r, !.cur = out.r,
                                 !.from = rd.cur, !.before = rd.c,
                                 !.c = [out.c EXCEPT !.fatal = FALSE], !.n = @ + 1]
    /\ UNCHANGED <<pk, bd, fr>>

\* SegmentReader::containsInterval called directly on a segment, for the
\* intervals from its start (one word past its end included)
ContainsInterval ==
    /\ rd.n < MaxReads
    /\ \E seg \in 0..(Len(rd.mem) - 1) :
         \E to \in 0..Min(MaxRequest, Len(rd.mem[seg + 1]) + 1) :
           LET ci == containsInterval(rd.mem, rd.c, seg, 0, to)
           IN  rd' = [rd EXCEPT !.op = "containsInterval", !.arg = <<seg, 0, to>>,
                                !.res = [type |-> "bool", ok |-> ci.ok],
                                !.before = rd.c, !.c = ci.c, !.n = @ + 1]
    /\ UNCHANGED <<pk, bd, fr>>

\* MessageReader::getRoot: StructReader::readRoot with the nesting limit of the
\* reader options
ReadRoot ==
    /\ rd.mem # <<>>
    /\ Accessed("readRoot", <<>>, readRoot(rd.mem, rd.c, rd.N))

\* the pointer slots the accessors of the current struct reader may be asked for
PointerIndexes == 0..(MaxIndex - 1)

\* the pointer at index i of the struct reader r
PointerRef(r, i) == [s |-> r.segment, a |-> r.pointers + i]

\* StructReader::getStructField(ptrIndex)
GetStructField ==
    /\ rd.cur.type = "struct"
    /\ \E i \in PointerIndexes :
         Accessed("getStructField", <<i>>,
                  IF i >= rd.cur.pointerCount THEN [r |-> DefaultStructReader, c |-> rd.c]
                  ELSE readStructPointer(rd.mem, rd.c, rd.cur.segment, PointerRef(rd.cur, i),
                                         rd.cur.nestingLimit))

\* StructReader::getListField(ptrIndex, expectedElementSize)
GetListField ==
    /\ rd.cur.type = "struct"
    /\ \E i \in PointerIndexes, es \in VOID..INLINE_COMPOSITE :
         Accessed("getListField", <<i, es>>,
                  IF i >= rd.cur.pointerCount THEN [r |-> DefaultListReader, c |-> rd.c]
                  ELSE readListPointer(rd.mem, rd.c, rd.cur.segment, PointerRef(rd.cur, i), es,
                                       rd.cur.nestingLimit))

\* StructReader::getBlobField<Text>(ptrIndex)
GetTextField ==
    /\ rd.cur.type = "struct"
    /\ \E i \in PointerIndexes :
         Accessed("getTextField", <<i>>,
                  IF i >= rd.cur.pointerCount THEN [r |-> DefaultBlobReader("text"), c |-> rd.c]
                  ELSE readTextPointer(rd.mem, rd.c, rd.cur.segment, PointerRef(rd.cur, i)))

\* StructReader::getBlobField<Data>(ptrIndex)
GetDataField ==
    /\ rd.cur.type = "struct"
    /\ \E i \in PointerIndexes :
         Accessed("getDataField", <<i>>,
                  IF i >= rd.cur.pointerCount THEN [r |-> DefaultBlobReader("data"), c |-> rd.c]
                  ELSE readDataPointer(rd.mem, rd.c, rd.cur.segment, PointerRef(rd.cur, i)))

\* what a read of a word outside every segment can come to: the word reads as
\* null, it reads as a pointer that is refused, or the read faults
StrayReads(c) ==
    { [r |-> DefaultObjectReader, c |-> c],
      [r |-> DefaultObjectReader, c |-> Report(c)],
      [r |-> DefaultObjectReader, c |-> [c EXCEPT !.fatal = TRUE]] }

\* the address ref is that of a word of the message
WordInSegment(ref) ==
    ref.s # NoSegment /\ ref.a >= 0 /\ ref.a < Len(rd.mem[ref.s + 1])

\* StructReader::getObjectField(ptrIndex): pointers + ptrIndex is handed to
\* readObjectPointer whatever the index
GetObjectField ==
    /\ rd.cur.type = "struct"
    /\ \E i \in PointerIndexes :
         IF WordInSegment(PointerRef(rd.cur, i))
           THEN Accessed("getObjectField", <<i>>,
                         readObjectPointer(rd.mem, rd.c, rd.cur.segment, PointerRef(rd.cur, i),
                                           rd.cur.nestingLimit))
         ELSE IF rd.cur.segment = NoSegment /\ i = 0
           THEN \* the null pointer of the default reader
                Accessed("getObjectField", <<i>>, [r |-> DefaultObjectReader, c |-> rd.c])
         ELSE \E out \in StrayReads(rd.c) : Accessed("getObjectField", <<i>>, out)

\* StructReader::isPointerFieldNull(ptrIndex); the reader stays where it is
IsPointerFieldNull ==
    /\ rd.n < MaxReads
    /\ rd.cur.type = "struct"
    /\ \E i \in PointerIndexes :
         rd' = [rd EXCEPT !.op = "isPointerFieldNull", !.arg = <<i>>,
                          !.res = [type |-> "bool",
                                   ok |-> \/ i >= rd.cur.pointerCount
                                          \/ isNull(WordOf(rd.mem, rd.cur.segment,
                                                            rd.cur.pointers + i))],
                          !.from = rd.cur, !.before = rd.c, !.n = @ + 1]
    /\ UNCHANGED <<pk, bd, fr>>

\* the element indexes the accessors of the list reader l may be asked for
ElementIndexes(l) == 0..(Min(l.elementCount, MaxIndex) - 1)

\* the list reader l has whole-word elements and element i lies in its segment
ElementInSegment(l, i) ==
    /\ l.segment # NoSegment
    /\ l.step % BITS_PER_WORD = 0
    /\ l.ptr + i * (l.step \div BITS_PER_WORD) >= 0
    /\ l.ptr + (i + 1) * (l.step \div BITS_PER_WORD) <= Len(rd.mem[l.segment + 1])

\* the current list reader was obtained as a list of pointers
IsPointerList ==
    /\ rd.cur.type = "list"
    /\ rd.cur.structPointerCount >= 1
    /\ rd.op \in {"getListField", "getListElement"}
    /\ rd.arg[2] = POINTER

\* the pointer that is element i of the list reader l
ElementRef(l, i) == [s |-> l.segment, a |-> l.ptr + i * (l.step \div BITS_PER_WORD)]

\* ListReader::getStructElement(index)
GetStructElement ==
    /\ rd.cur.type = "list"
    /\ \E i \in ElementIndexes(rd.cur) :
         /\ ElementInSegment(rd.cur, i)
         /\ Accessed("getStructElement", <<i>>, getStructElementChecked(rd.cur, i, rd.c))

\* ListReader::getListElement(index, expectedElementSize)
GetListElement ==
    /\ IsPointerList
    /\ \E i \in ElementIndexes(rd.cur), es \in {BYTE, POINTER, INLINE_COMPOSITE} :
         /\ ElementInSegment(rd.cur, i)
         /\ Accessed("getListElement", <<i, es>>,
                     readListPointer(rd.mem, rd.c, rd.cur.segment, ElementRef(rd.cur, i), es,
                                     rd.cur.nestingLimit))

\* ListReader::getBlobElement<Text>(index)
GetTextElement ==
    /\ IsPointerList
    /\ \E i \in ElementIndexes(rd.cur) :
         /\ ElementInSegment(rd.cur, i)
         /\ Accessed("getTextElement", <<i>>,
                     readTextPointer(rd.mem, rd.c, rd.cur.segment, ElementRef(rd.cur, i)))

\* ListReader::getBlobElement<Data>(index)
GetDataElement ==
    /\ IsPointerList
    /\ \E i \in ElementIndexes(rd.cur) :
         /\ ElementInSegment(rd.cur, i)
         /\ Accessed("getDataElement", <<i>>,
                     readDataPointer(rd.mem, rd.c, rd.cur.segment, ElementRef(rd.cur, i)))

\* ListReader::getObjectElement(index)
GetObjectElement ==
    /\ IsPointerList
    /\ \E i \in ElementIndexes(rd.cur) :
         /\ ElementInSegment(rd.cur, i)
         /\ Accessed("getObjectElement", <<i>>,
                     readObjectPointer(rd.mem, rd.c, rd.cur.segment, ElementRef(rd.cur, i),
                                       rd.cur.nestingLimit))

NextReader ==
    \/ ReadRoot
    \/ GetStructField
    \/ GetListField
    \/ GetTextField
    \/ GetDataField
    \/ GetObjectField
    \/ IsPointerFieldNull
    \/ GetStructElement
    \/ GetListElement
    \/ GetTextElement
    \/ GetDataElement
    \/ GetObjectElement

SpecReader == InitReader /\ [][NextReader]_vars

\* The traversal limit: the longer messages, read through the accessors and
\* through containsInterval itself
InitLimiter ==
    /\ \E q \in LongerSegments, L \in ReaderLimits :
       \E m \in {<<q>>, <<q, SecondSegment>>} :
         rd = [mem |-> m, L |-> L, N |-> NestingLimit, c |-> ReadingContext(L),
               before |-> ReadingContext(L), op |-> "none", arg |-> <<>>, res |-> DefaultObjectReader,
               cur |-> DefaultObjectReader, from |-> DefaultObjectReader, n |-> 0]
    /\ pk = Off /\ bd = Off /\ fr = Off

NextLimiter ==
    \/ ContainsInterval
    \/ ReadRoot
    \/ GetStructField
    \/ GetListField
    \/ GetTextField
    \/ GetStructElement

SpecLimiter == InitLimiter /\ [][NextLimiter]_vars

\* the accessors that resolve a pointer
ResolvingOps ==
    {"readRoot", "getStructField", "getListField", "getTextField", "getDataField",
     "getObjectField", "getListElement", "getTextElement", "getDataElement",
     "getObjectElement"}

\* the reader r is the default / empty substitute
IsDefault(r) == r.segment = NoSegment

\* the words from..to (exclusive) lie in segment seg of the message
InsideSegment(mem, seg, from, to) ==
    seg # NoSegment /\ from >= 0 /\ from <= to /\ to <= Len(mem[seg + 1])

\* the first word of every element of the list reader l lies in l's segment
\* (for elements smaller than a word: all their words do)
ListInside(mem, l) ==
    IF l.step % BITS_PER_WORD # 0 \/ l.step = 0
      THEN InsideSegment(mem, l.segment, l.ptr, l.ptr + ListWordCount(l.elementCount, l.step))
    ELSE IF l.elementCount = 0 THEN InsideSegment(mem, l.segment, l.ptr, l.ptr)
    ELSE /\ l.segment # NoSegment
         /\ l.elementCount <= Len(mem[l.segment + 1])
         /\ InsideSegment(mem, l.segment, l.ptr,
                          l.ptr + (l.elementCount - 1) * (l.step \div BITS_PER_WORD) + 1)

\* the words the reader r gives access to lie in its segment
ReaderInside(mem, r) ==
    CASE r.type = "struct" ->
           InsideSegment(mem, r.segment, r.data,
                         r.data + (r.dataSize \div BITS_PER_WORD) + r.pointerCount)
      [] r.type = "list" -> ListInside(mem, r)
      [] r.type = "text" ->
           InsideSegment(mem, r.segment, r.ptr, r.ptr + roundUpBytesToWords(r.size + 1))
      [] r.type = "data" ->
           InsideSegment(mem, r.segment, r.ptr, r.ptr + roundUpBytesToWords(r.size))
      [] OTHER -> FALSE

\* C3: for arbitrary segment contents, every reader or view a read primitive
\* returns is the default / empty substitute or lies wholly inside one segment.
\* (Violated by the code: see the inline-composite size checks.)
C3_ReadersInsideSegment ==
    rd.op \in ResolvingOps => IsDefault(rd.res) \/ ReaderInside(rd.mem, rd.res)

\* C9: once containsInterval was refused by the limiter, every later pointer
\* resolution on the arena behaves as null.  (Violated by the code: canRead
\* leaves the remaining limit as it was, so a smaller request is granted.)
C9_RefusalLatches ==
    rd.op \in ResolvingOps /\ rd.before.refused => IsDefault(rd.res)

\* C10: with traversal limit L the words granted by successful containsInterval
\* calls never total more than L, and a request inside the segment that would
\* push the total past L is refused, with an error recorded and nothing granted.
C10_TraversalLimit ==
    /\ rd.c.total <= rd.L
    /\ rd.op = "containsInterval"
         /\ InsideSegment(rd.mem, rd.arg[1], rd.arg[2], rd.arg[3])
         /\ rd.before.total + (rd.arg[3] - rd.arg[2]) > rd.L
       => /\ ~rd.res.ok
          /\ rd.c.errs = rd.before.errs + 1
          /\ rd.c.total = rd.before.total
          /\ rd.c.limit = rd.before.limit

\* a request was refused after earlier reads had used part of the limit
C10_Witness ==
    /\ rd.op = "containsInterval"
    /\ ~rd.res.ok
    /\ rd.before.total > 0
    /\ rd.before.total + (rd.arg[3] - rd.arg[2]) > rd.L
    /\ InsideSegment(rd.mem, rd.arg[1], rd.arg[2], rd.arg[3])
    /\ rd.c.errs = rd.before.errs + 1

\* ---------------------------------------------------------------------------
\* The nesting limit: messages read with a limit small enough to be used up

\* first segments of the messages read: the longer ones, a struct that is its
\* own pointer, and structs whose pointer is far and double-far
NestingSegments ==
    LongerSegments \cup
      { <<StructPtr(-1, 0, 1)>>,
        <<StructPtr(0, 0, 1), FarPtr(FALSE, 0, 1)>>,
        <<StructPtr(0, 0, 1), FarPtr(TRUE, 2, 1)>> }

InitNesting ==
    /\ \E q \in NestingSegments, L \in ReaderLimits, N \in 0..(MaxReads - 1) :
       \E m \in {<<q>>, <<q, SecondSegment>>} :
         rd = [mem |-> m, L |-> L, N |-> N, c |-> ReadingContext(L),
               before |-> ReadingContext(L), op |-> "none", arg |-> <<>>,
               res |-> DefaultObjectReader, cur |-> DefaultObjectReader,
               from |-> DefaultObjectReader, n |-> 0]
    /\ pk = Off /\ bd = Off /\ fr = Off

NextNesting ==
    \/ ReadRoot
    \/ GetStructField
    \/ GetListField
    \/ GetObjectField
    \/ GetStructElement
    \/ GetListElement
    \/ GetObjectElement

SpecNesting == InitNesting /\ [][NextNesting]_vars

\* the accessors that descend into a struct or a list
DescentOps ==
    {"readRoot", "getStructField", "getListField", "getObjectField", "getStructElement",
     "getListElement", "getObjectElement"}

\* the accessors that resolve a pointer field of a struct
FieldOps ==
    {"getStructField", "getListField", "getTextField", "getDataField", "getObjectField"}

\* the pointer the last accessor resolved
SlotOf ==
    IF rd.op = "readRoot" THEN [s |-> 0, a |-> 0]
    ELSE IF rd.op \in FieldOps
      THEN PointerRef(rd.from, rd.arg[1])
    ELSE ElementRef(rd.from, rd.arg[1])

\* the nesting limit the last accessor descended with
LimitOf == IF rd.op = "readRoot" THEN rd.N ELSE rd.from.nestingLimit

\* the last accessor had a pointer to resolve, and it was not null
SlotHeld ==
    /\ rd.op \in FieldOps => rd.arg[1] < rd.from.pointerCount
    /\ InsideSegment(rd.mem, SlotOf.s, SlotOf.a, SlotOf.a + 1)
    /\ ~isNull(WordOf(rd.mem, SlotOf.s, SlotOf.a))

\* the last accessor descended to an object deeper than the nesting limit
TooDeep ==
    /\ rd.op \in DescentOps
    /\ LimitOf <= 0
    /\ rd.op # "getStructElement" => SlotHeld

\* the words of the landing pad of the far pointer w, when it has one in the
\* message: they are pointer, not object
PadWords(mem, w) ==
    IF Kind(w) = FAR /\ tryGetSegment(mem, segmentId(w)) # NoSegment
      THEN {<<tryGetSegment(mem, segmentId(w)), farPositionInSegment(w) + k>> :
              k \in 0..(IF isDoubleFar(w) THEN 1 ELSE 0)}
      ELSE {}

\* a word that must not be looked at: it is no sequence of bytes, so Kind,
\* isNull and every other inspection of it fails to evaluate
PoisonWord == "unread"

\* the message with every word other than those of keep overwritten
Poisoned(mem, keep) ==
    [s \in 1..Len(mem) |->
        [a \in 1..Len(mem[s]) |->
            IF <<s - 1, a - 1>> \in keep THEN mem[s][a] ELSE PoisonWord]]

\* the message with only the pointer the last accessor resolved, and its
\* landing pad, left as they are
OnlyPointerLeft ==
    IF rd.op = "getStructElement" THEN Poisoned(rd.mem, {})
    ELSE Poisoned(rd.mem, {<<SlotOf.s, SlotOf.a>>}
                            \cup PadWords(rd.mem, WordOf(rd.mem, SlotOf.s, SlotOf.a)))

\* what the last accessor returns when called in the same way on message mem
DescentOn(mem) ==
    CASE rd.op = "readRoot" -> readRoot(mem, rd.before, rd.N)
      [] rd.op = "getStructField" ->
           readStructPointer(mem, rd.before, rd.from.segment, SlotOf, LimitOf)
      [] rd.op = "getListField" ->
           readListPointer(mem, rd.before, rd.from.segment, SlotOf, rd.arg[2], LimitOf)
      [] rd.op = "getObjectField" ->
           readObjectPointer(mem, rd.before, rd.from.segment, SlotOf, LimitOf)
      [] rd.op = "getStructElement" ->
           getStructElementChecked(rd.from, rd.arg[1], rd.before)
      [] rd.op = "getListElement" ->
           readListPointer(mem, rd.before, rd.from.segment, SlotOf, rd.arg[2], LimitOf)
      [] rd.op = "getObjectElement" ->
           readObjectPointer(mem, rd.before, rd.from.segment, SlotOf, LimitOf)

\* C11: a struct or list reached by more descents than the nesting limit of
\* the root read allows comes back as the default, a validation error is
\* recorded, and the outcome is the same whatever the words of the message
\* other than the pointer and its landing pad hold: the object is not read.
C11_NestingLimit ==
    TooDeep =>
        /\ IsDefault(rd.res)
        /\ rd.c.errs > rd.before.errs
        /\ DescentOn(OnlyPointerLeft) = [r |-> rd.res, c |-> rd.c]

\* with a nesting limit of one or more, a struct list inside its segment was
\* reached with the limit used up
C11_Witness ==
    /\ TooDeep
    /\ rd.N >= 1
    /\ rd.op = "getListField"
    /\ rd.before.errs = 0
    /\ Kind(WordOf(rd.mem, SlotOf.s, SlotOf.a)) = LIST
    /\ elementSize(WordOf(rd.mem, SlotOf.s, SlotOf.a)) = INLINE_COMPOSITE
    /\ IsDefault(rd.res)
    /\ rd.c.errs = 1

\* ------------------------------------------------------------------------
\* The packed codec as a state machine: a message is written through a
\* PackedOutputStream and read back through a PackedInputStream.

\* longest message, in words, built freely from the word palette
MaxPackWords == 3

\* length of the long runs, in words: enough to overflow one count byte
LongRunWords == RunCap + 2

\* words with every tag class: zero, all non-zero, one zero byte (stays in a
\* verbatim run), two zero bytes (ends one), sparse
PackWords ==
    { ZeroWord,
      <<1, 2, 3, 4, 5, 6, 7, 8>>,
      <<9, 0, 255, 1, 1, 1, 1, 1>>,
      <<0, 17, 0, 34, 0, 0, 0, 0>>,
      <<0, 0, 0, 0, 0, 0, 0, 128>> }

RECURSIVE WordSeqs(_)
\* all sequences of at most n palette words
WordSeqs(n) ==
    IF n = 0 THEN {<<>>}
    ELSE LET shorter == WordSeqs(n - 1)
         IN  shorter \cup {Append(q, w) : q \in {x \in shorter : Len(x) = n - 1}, w \in PackWords}

\* long runs of zero words and of incompressible words, with short head and tail
LongMessages ==
    { h \o Repeat(w, LongRunWords) \o t :
        h \in WordSeqs(1), t \in WordSeqs(1),
        w \in {ZeroWord, <<1, 2, 3, 4, 5, 6, 7, 8>>} }

\* 300 zero words, 10 words of eight 0xff bytes, and a word with two bytes set
PackingExample ==
    Flatten(Repeat(ZeroWord, 300) \o Repeat(Repeat(255, 8), 10)
              \o << <<0, 17, 0, 34, 0, 0, 0, 0>> >>)

PackMessages ==
    {Flatten(q) : q \in WordSeqs(MaxPackWords) \cup LongMessages} \cup {PackingExample}

\* sizes of the inner output stream's write buffer
OutBufSizes == {4, 10, 25, 64}

\* sizes of the inner input stream's read buffer
InBufSizes == {1, 7, 10, 64}

InitPacked ==
    /\ \E m \in PackMessages, B \in OutBufSizes, C \in InBufSizes :
        pk = [pc |-> "start", src |-> m, B |-> B, C |-> C, stream |-> <<>>,
              dst |-> <<>>, ret |-> 0, err |-> FALSE, ipos |-> 0]
    /\ rd = Off /\ bd = Off /\ fr = Off

\* PackedOutputStream::write(m, |m|)
Write ==
    /\ pk.pc = "start"
    /\ pk' = [pk EXCEPT !.pc = "written", !.stream = PackedWrite(pk.src, pk.B)]
    /\ UNCHANGED <<rd, bd, fr>>

\* PackedInputStream::read(dst, |m|, |m|) on the written stream
Read ==
    /\ pk.pc = "written"
    /\ LET r == PackedRead(pk.stream, pk.C, 0, Len(pk.src), Len(pk.src))
       IN  pk' = [pk EXCEPT !.pc = "read", !.dst = r.out, !.ret = r.ret,
                            !.err = r.err, !.ipos = r.ipos]
    /\ UNCHANGED <<rd, bd, fr>>

NextPacked == Write \/ Read

SpecPacked == InitPacked /\ [][NextPacked]_vars

\* C1: for every message m whose size is a multiple of 8 bytes, writing m
\* through the packed encoder and reading |m| bytes back (minimum = maximum =
\* |m|) yields exactly m, without a validation error.
C1_PackedRoundTrip ==
    pk.pc = "read" => pk.dst = pk.src /\ ~pk.err /\ pk.ret = Len(pk.src)

\* a long run crossing the 255-word cap was read back through a read buffer
\* smaller than the fast path needs, after being written through a small buffer
C1_Witness ==
    /\ pk.pc = "read"
    /\ Len(pk.src) > RunCap * BYTES_PER_WORD
    /\ pk.C < FastPathBytes
    /\ pk.B < FastPathBytes
    /\ pk.dst = pk.src

\* ---------------------------------------------------------------------------
\* Unpacking as a state machine: a packed input is read through a
\* PackedInputStream whose inner stream hands out read buffers of C bytes

\* packed inputs written by hand: runs split in two, runs of no words, and runs
\* that announce more words than any request asks for
HandPacked ==
    { <<0, 0, 0, 0>>,                                   \* two zero words, a run each
      <<0, 1>>,                                         \* the same two words, one run
      <<255, 1, 2, 3, 4, 5, 6, 7, 8, 0, 255, 1, 2, 3, 4, 5, 6, 7, 8, 0>>,
      <<255, 1, 2, 3, 4, 5, 6, 7, 8, 1, 1, 2, 3, 4, 5, 6, 7, 8>>,
      <<255, 1, 0, 3, 4, 5, 6, 7, 8, 0>>,               \* a zero byte under a set tag bit
      <<0, 7>>,                                         \* eight zero words
      <<255, 1, 2, 3, 4, 5, 6, 7, 8, 7, 1, 2, 3, 4, 5, 6, 7, 8>>,
      <<1, 5, 0, 9>> }                                  \* a sparse word, then a long run

\* the packed inputs the packer writes for the short messages
PackerOutputs == {PackedWrite(Flatten(q), 64) : q \in WordSeqs(MaxPackWords)}

\* sizes of the inner stream's read buffers: every size up to one past what
\* the fast path needs, and one that holds any of the inputs whole
SplitSizes == (1..(FastPathBytes + 1)) \cup {64}

\* the requests read(dst, minBytes, maxBytes) is called with: whole words
Requests ==
    {q \in (0..MaxPackWords) \X (1..MaxPackWords) : q[1] <= q[2]}

InitUnpack ==
    /\ \E from \in {"packer", "hand"}, C \in SplitSizes, q \in Requests :
         \E s \in IF from = "packer" THEN PackerOutputs ELSE HandPacked :
            pk = [pc |-> "start", from |-> from, stream |-> s, C |-> C,
                  min |-> q[1] * BYTES_PER_WORD, max |-> q[2] * BYTES_PER_WORD,
                  dst |-> <<>>, ret |-> 0, err |-> FALSE, ipos |-> 0, packed |-> <<>>]
    /\ rd = Off /\ bd = Off /\ fr = Off

\* PackedInputStream::read(dst, minBytes, maxBytes) on the packed input
Unpack ==
    /\ pk.pc = "start"
    /\ \E r \in {PackedRead(pk.stream, pk.C, 0, pk.min, pk.max)} :
         pk' = [pk EXCEPT !.pc = "read", !.dst = r.out, !.ret = r.ret, !.err = r.err,
                          !.ipos = r.ipos]
    /\ UNCHANGED <<rd, bd, fr>>

\* PackedOutputStream::write of the bytes read, through an output buffer of
\* B bytes
Repack ==
    /\ pk.pc = "read" /\ ~pk.err
    /\ \E B \in OutBufSizes :
         pk' = [pk EXCEPT !.pc = "packed", !.packed = PackedWrite(pk.dst, B)]
    /\ UNCHANGED <<rd, bd, fr>>

NextUnpack == Unpack \/ Repack

SpecUnpack == InitUnpack /\ [][NextUnpack]_vars

\* ---------------------------------------------------------------------------
\* Builder arena: SegmentBuilder, BuilderArena and the layout builder primitives.
\* An arena A is [segs, S]: the SegmentBuilders in id order, each the segment's
\* words and its allocation position pos, and the message's segment size S.

\* a SegmentBuilder over a fresh array of n words: pos = ptr.begin()
SegmentBuilder(n) == [words |-> Repeat(ZeroWord, n), pos |-> 0]

\* MessageBuilder::allocateSegment under the fixed-size policy: a zeroed array
\* of at least minimumSize words
allocateSegment(S, minimumSize) == SegmentBuilder(Max(minimumSize, S))

\* SegmentBuilder::available
available(sb) == Len(sb.words) - sb.pos

\* SegmentBuilder::allocate that hands out pos without advancing it
segmentAllocateNoAdvance(sb, amount) ==
    IF amount > Len(sb.words) - sb.pos THEN [ok |-> FALSE, ptr |-> 0, sb |-> sb]
    ELSE [ok |-> TRUE, ptr |-> sb.pos, sb |-> sb]

\* SegmentBuilder::allocate without the comparison with the space left
segmentAllocateUnchecked(sb, amount) ==
    [ok |-> TRUE, ptr |-> sb.pos, sb |-> [sb EXCEPT !.pos = @ + amount]]

\* SegmentBuilder::allocate: nullptr (ok = FALSE) or the old pos, pos advanced
segmentAllocate(sb, amount) ==
    IF amount > available(sb) THEN [ok |-> FALSE, ptr |-> 0, sb |-> sb]
    ELSE [ok |-> TRUE, ptr |-> sb.pos, sb |-> [sb EXCEPT !.pos = @ + amount]]

\* SegmentBuilder::reset that only rewinds pos
resetKeepContents(sb) == [sb EXCEPT !.pos = 0]

\* SegmentBuilder::reset: memset of [start, pos), then pos = start
reset(sb) ==
    [words |-> [i \in 1..Len(sb.words) |-> IF i <= sb.pos THEN ZeroWord ELSE sb.words[i]],
     pos |-> 0]

\* BuilderArena::getSegmentWithAvailable: segment 0, else the last segment,
\* else a new segment appended with the next id
getSegmentWithAvailable(A, minimumAvailable) ==
    IF Len(A.segs) = 0
    THEN [A |-> [A EXCEPT !.segs = <<allocateSegment(A.S, minimumAvailable)>>], id |-> 0]
    ELSE IF available(A.segs[1]) >= minimumAvailable THEN [A |-> A, id |-> 0]
    ELSE IF Len(A.segs) > 1 /\ available(A.segs[Len(A.segs)]) >= minimumAvailable
    THEN [A |-> A, id |-> Len(A.segs) - 1]
    ELSE [A |-> [A EXCEPT !.segs = Append(@, allocateSegment(A.S, minimumAvailable))],
          id |-> Len(A.segs)]

\* BuilderArena::getSegment for the ids the builder writes (below 2^16)
getSegment(id) == id[1]

\* the word at offset a of segment seg (getPtrUnchecked), and a store to it
GetWord(A, seg, a) == A.segs[seg + 1].words[a + 1]

SetWord(A, seg, a, w) == [A EXCEPT !.segs[seg + 1].words[a + 1] = w]

\* memset(ptr, 0, n words) in segment seg
ZeroWords(A, seg, ptr, n) ==
    [A EXCEPT !.segs[seg + 1].words =
        [i \in 1..Len(@) |-> IF i > ptr /\ i <= ptr + n THEN ZeroWord ELSE @[i]]]

\* a pointer location: word a of segment s
Ref(s, a) == [s |-> s, a |-> a]

RECURSIVE zeroObject(_, _, _)
RECURSIVE zeroObjectAt(_, _, _, _)
RECURSIVE zeroPointers(_, _, _, _)
RECURSIVE zeroElements(_, _, _, _, _, _)

\* the loops "for i < count: zeroObject(segment, first + i)" of zeroObject
zeroPointers(A, segment, first, count) ==
    IF count = 0 THEN A
    ELSE CHOOSE res \in {zeroPointers(x, segment, first + 1, count - 1) :
                            x \in {zeroObject(A, segment, Ref(segment, first))}} : TRUE

\* the element loop of the INLINE_COMPOSITE case: skip the data section, zero
\* the objects of the element's pointers
zeroElements(A, segment, pos, ds, pc, count) ==
    IF count = 0 THEN A
    ELSE CHOOSE res \in {zeroElements(x, segment, pos + ds + pc, ds, pc, count - 1) :
                            x \in {zeroPointers(A, segment, pos + ds, pc)}} : TRUE

\* WireHelpers::zeroObject(segment, tag, ptr): the object at ptr of segment
\* described by the pointer word at tag
zeroObjectAt(A, segment, tag, ptr) ==
    LET w == GetWord(A, tag.s, tag.a)
    IN  IF Kind(w) = STRUCT
        THEN CHOOSE res \in {ZeroWords(x, segment, ptr, wordSize(GetWord(x, tag.s, tag.a))) :
                                x \in {zeroPointers(A, segment, ptr + dataSize(w), ptrCount(w))}} : TRUE
        ELSE IF Kind(w) = LIST
        THEN IF elementSize(w) = VOID THEN A
             ELSE IF elementSize(w) = POINTER
             THEN zeroPointers(A, segment, ptr, elementCount(w))
             ELSE IF elementSize(w) = INLINE_COMPOSITE
             THEN CHOOSE res \in
                    {ZeroWords(x, segment, ptr,
                               wordSize(GetWord(x, segment, ptr)) + POINTER_SIZE_IN_WORDS) :
                       x \in {zeroElements(A, segment, ptr + POINTER_SIZE_IN_WORDS,
                                           dataSize(GetWord(A, segment, ptr)),
                                           ptrCount(GetWord(A, segment, ptr)),
                                           inlineCompositeListElementCount(
                                               GetWord(A, segment, ptr)))}} : TRUE
             ELSE ZeroWords(A, segment, ptr,
                            ListWordCount(elementCount(w), dataBitsPerElement(elementSize(w))))
        ELSE A

\* WireHelpers::zeroObject(segment, ref): the object ref points to, and the
\* landing pad when ref is a far pointer
zeroObject(A, segment, ref) ==
    LET w == GetWord(A, ref.s, ref.a)
        padSeg == getSegment(segmentId(w))
        pad == farPositionInSegment(w)
    IN  IF Kind(w) = STRUCT \/ Kind(w) = LIST
        THEN zeroObjectAt(A, segment, ref, Target(ref.a, w))
        ELSE IF Kind(w) = FAR
        THEN IF isDoubleFar(w)
             THEN CHOOSE res \in
                    {ZeroWords(x, padSeg, pad, 2) :
                       x \in {zeroObjectAt(A, getSegment(segmentId(GetWord(A, padSeg, pad))),
                                           Ref(padSeg, pad + 1),
                                           farPositionInSegment(GetWord(A, padSeg, pad)))}} : TRUE
             ELSE CHOOSE res \in {ZeroWords(x, padSeg, pad, 1) :
                                    x \in {zeroObject(A, padSeg, Ref(padSeg, pad))}} : TRUE
        ELSE A

\* WireHelpers::zeroPointerAndFars: the pointer and its landing pad, not the object
zeroPointerAndFars(A, segment, ref) ==
    LET w == GetWord(A, ref.s, ref.a)
    IN  SetWord(IF Kind(w) = FAR
                THEN ZeroWords(A, getSegment(segmentId(w)), farPositionInSegment(w),
                               IF isDoubleFar(w) THEN 2 ELSE 1)
                ELSE A,
                ref.s, ref.a, ZeroWord)

\* WireHelpers::followFars for builders: the pointer that describes the object
\* (ref), the segment holding the object and the object's position
followFarsBuilder(A, ref, segment) ==
    LET w == GetWord(A, ref.s, ref.a)
        padSeg == getSegment(segmentId(w))
        pad == farPositionInSegment(w)
    IN  IF Kind(w) = FAR
        THEN IF ~isDoubleFar(w)
             THEN [ref |-> Ref(padSeg, pad), segment |-> padSeg,
                   ptr |-> Target(pad, GetWord(A, padSeg, pad))]
             ELSE [ref |-> Ref(padSeg, pad + 1),
                   segment |-> getSegment(segmentId(GetWord(A, padSeg, pad))),
                   ptr |-> farPositionInSegment(GetWord(A, padSeg, pad))]
        ELSE [ref |-> ref, segment |-> segment, ptr |-> Target(ref.a, w)]

\* WireHelpers::allocate when the segment had room: r is what
\* SegmentBuilder::allocate returned, ref becomes a pointer to it
allocateHere(A, ref, segment, r, kind) ==
    [A |-> SetWord([A EXCEPT !.segs[segment + 1] = r.sb], ref.s, ref.a,
                   setKindAndTarget(GetWord(A, ref.s, ref.a), ref.a, kind, r.ptr)),
     ref |-> ref, segment |-> segment, ptr |-> r.ptr]

\* an allocate whose far pointer names the object instead of the landing pad
allocateFarToObject(A, ref, id, amount, kind) ==
    LET r == segmentAllocate(A.segs[id + 1], amount + POINTER_SIZE_IN_WORDS)
    IN  [A |-> SetWord(SetWord([A EXCEPT !.segs[id + 1] = r.sb], ref.s, ref.a,
                               farRefSet(setFar(GetWord(A, ref.s, ref.a), FALSE,
                                                r.ptr + POINTER_SIZE_IN_WORDS), id)),
                       id, r.ptr,
                       setKindAndTarget(GetWord(A, id, r.ptr), r.ptr, kind,
                                        r.ptr + POINTER_SIZE_IN_WORDS)),
         ref |-> Ref(id, r.ptr), segment |-> id, ptr |-> r.ptr + POINTER_SIZE_IN_WORDS]

\* WireHelpers::allocate when it did not: amount + 1 words of segment id, ref
\* becomes a far pointer to the landing pad in front of the object
allocateFar(A, ref, id, amount, kind) ==
    LET r == segmentAllocate(A.segs[id + 1], amount + POINTER_SIZE_IN_WORDS)
    IN  [A |-> SetWord(SetWord([A EXCEPT !.segs[id + 1] = r.sb], ref.s, ref.a,
                               farRefSet(setFar(GetWord(A, ref.s, ref.a), FALSE, r.ptr), id)),
                       id, r.ptr,
                       setKindAndTarget(GetWord(A, id, r.ptr), r.ptr, kind,
                                        r.ptr + POINTER_SIZE_IN_WORDS)),
         ref |-> Ref(id, r.ptr), segment |-> id, ptr |-> r.ptr + POINTER_SIZE_IN_WORDS]

\* WireHelpers::allocate once the old object is zeroed
allocateZeroed(A, ref, segment, amount, kind) ==
    IF segmentAllocate(A.segs[segment + 1], amount).ok
    THEN allocateHere(A, ref, segment, segmentAllocate(A.segs[segment + 1], amount), kind)
    ELSE CHOOSE res \in {allocateFar(g.A, ref, g.id, amount, kind) :
                           g \in {getSegmentWithAvailable(A, amount + POINTER_SIZE_IN_WORDS)}} : TRUE

\* WireHelpers::allocate: zero what ref pointed to, take amount words from
\* segment or, with a landing pad in front, from a segment that has room
allocate(A, ref, segment, amount, kind) ==
    CHOOSE res \in {allocateZeroed(x, ref, segment, amount, kind) :
                      x \in {IF isNull(GetWord(A, ref.s, ref.a)) THEN A
                             ELSE zeroObject(A, segment, ref)}} : TRUE

\* memcpy(&dst->upper32Bits, &src->upper32Bits, 4)
CopyUpper32(dst, src) == SubSeq(dst, 1, 4) \o SubSeq(src, 5, 8)

\* setKindWithZeroOffset(kind)
setKindWithZeroOffset(w, kind) == OffsetAndKind(0, kind) \o SubSeq(w, 5, 8)

\* memcpy of n words from src of srcSeg to dst of dstSeg
CopyWords(A, dstSeg, dst, srcSeg, src, n) ==
    [A EXCEPT !.segs[dstSeg + 1].words =
        [i \in 1..Len(@) |-> IF i > dst /\ i <= dst + n
                             THEN A.segs[srcSeg + 1].words[src + (i - dst)]
                             ELSE @[i]]]

\* a double-far branch that marks dst as a plain far pointer
transferDoubleFarUnmarked(A, dst, srcSegment, sw, target, id) ==
    LET r == segmentAllocate(A.segs[id + 1], 2)
    IN  SetWord(
          SetWord(
            SetWord([A EXCEPT !.segs[id + 1] = r.sb], id, r.ptr,
                    farRefSet(setFar(GetWord(A, id, r.ptr), FALSE, target), srcSegment)),
            id, r.ptr + 1,
            CopyUpper32(setKindWithZeroOffset(GetWord(A, id, r.ptr + 1), Kind(sw)), sw)),
          dst.s, dst.a, farRefSet(setFar(GetWord(A, dst.s, dst.a), FALSE, r.ptr), id))

\* transferPointer, the double-far branch: two words of segment id become the
\* landing pad, a far pointer to the object and a tag with the object's sizes
transferDoubleFar(A, dst, srcSegment, sw, target, id) ==
    LET r == segmentAllocate(A.segs[id + 1], 2)
    IN  SetWord(
          SetWord(
            SetWord([A EXCEPT !.segs[id + 1] = r.sb], id, r.ptr,
                    farRefSet(setFar(GetWord(A, id, r.ptr), FALSE, target), srcSegment)),
            id, r.ptr + 1,
            CopyUpper32(setKindWithZeroOffset(GetWord(A, id, r.ptr + 1), Kind(sw)), sw)),
          dst.s, dst.a, farRefSet(setFar(GetWord(A, dst.s, dst.a), TRUE, r.ptr), id))

\* a landing pad that does not take the size fields of the source pointer
transferFarNoSizes(A, dst, srcSegment, sw, target, r) ==
    SetWord(
      SetWord([A EXCEPT !.segs[srcSegment + 1] = r.sb], srcSegment, r.ptr,
              setKindAndTarget(GetWord(A, srcSegment, r.ptr), r.ptr, Kind(sw), target)),
      dst.s, dst.a, farRefSet(setFar(GetWord(A, dst.s, dst.a), FALSE, r.ptr), srcSegment))

\* transferPointer, the simple landing pad: the word r.ptr of the source's
\* segment becomes a pointer to the object, dst a far pointer to it
transferFar(A, dst, srcSegment, sw, target, r) ==
    SetWord(
      SetWord([A EXCEPT !.segs[srcSegment + 1] = r.sb], srcSegment, r.ptr,
              CopyUpper32(setKindAndTarget(GetWord(A, srcSegment, r.ptr), r.ptr, Kind(sw),
                                           target), sw)),
      dst.s, dst.a, farRefSet(setFar(GetWord(A, dst.s, dst.a), FALSE, r.ptr), srcSegment))

\* transferPointer that copies the pointer word as it is
transferPointerVerbatim(A, dstSegment, dst, srcSegment, src) ==
    [A EXCEPT !.segs[dst.s + 1].words[dst.a + 1] = A.segs[src.s + 1].words[src.a + 1]]

\* WireHelpers::transferPointer: make *dst point to the object of *src
transferPointer(A, dstSegment, dst, srcSegment, src) ==
    LET sw == GetWord(A, src.s, src.a)
    IN  IF isNull(sw) THEN SetWord(A, dst.s, dst.a, ZeroWord)
        ELSE IF Kind(sw) = FAR THEN SetWord(A, dst.s, dst.a, sw)
        ELSE IF dstSegment = srcSegment
        THEN SetWord(A, dst.s, dst.a,
                     CopyUpper32(setKindAndTarget(GetWord(A, dst.s, dst.a), dst.a, Kind(sw),
                                                  Target(src.a, sw)), sw))
        ELSE IF segmentAllocate(A.segs[srcSegment + 1], 1).ok
        THEN transferFar(A, dst, srcSegment, sw, Target(src.a, sw),
                         segmentAllocate(A.segs[srcSegment + 1], 1))
        ELSE CHOOSE res \in {transferDoubleFar(g.A, dst, srcSegment, sw, Target(src.a, sw), g.id) :
                               g \in {getSegmentWithAvailable(A, 2)}} : TRUE

RECURSIVE transferPointers(_, _, _, _, _, _)
\* the pointer section loop of getWritableStructPointer
transferPointers(A, dstSegment, dstFirst, srcSegment, srcFirst, count) ==
    IF count = 0 THEN A
    ELSE CHOOSE res \in {transferPointers(x, dstSegment, dstFirst + 1, srcSegment,
                                          srcFirst + 1, count - 1) :
                            x \in {transferPointer(A, dstSegment, Ref(dstSegment, dstFirst),
                                                   srcSegment, Ref(srcSegment, srcFirst))}} : TRUE

\* StructSize(data, pointers, preferredListEncoding)
StructSize(data, pointers, enc) == [data |-> data, pointers |-> pointers, enc |-> enc]

\* StructBuilder(segment, data, pointers, dataSize, pointerCount): data and
\* pointers are word positions in the segment, dataSize is in words
StructBuilder(segment, data, pointers, ds, pc) ==
    [segment |-> segment, data |-> data, pointers |-> pointers, dataSize |-> ds,
     pointerCount |-> pc]

\* initStructPointer after allocate: structRef.set(size) and the StructBuilder
structAllocated(al, ds, pc) ==
    [A |-> SetWord(al.A, al.ref.s, al.ref.a,
                   structRefSet(GetWord(al.A, al.ref.s, al.ref.a), ds, pc)),
     b |-> StructBuilder(al.segment, al.ptr, al.ptr + ds, ds, pc)]

\* WireHelpers::initStructPointer
initStructPointer(A, ref, segment, size) ==
    CHOOSE res \in {structAllocated(al, size.data, size.pointers) :
                      al \in {allocate(A, ref, segment, size.data + size.pointers, STRUCT)}} : TRUE

\* the upgrade of getWritableStructPointer once the new struct nb is allocated
\* and sized: copy the data section, transfer the pointers, zero the old body
upgradeCopy(nb, old, ow) ==
    CHOOSE res \in
      {[A |-> ZeroWords(y, old.segment, old.ptr, dataSize(ow) + ptrCount(ow)), b |-> nb.b] :
         y \in UNION
           {{transferPointers(x, nb.b.segment, nb.b.pointers, old.segment,
                              old.ptr + dataSize(ow), ptrCount(ow))} :
              x \in {CopyWords(nb.A, nb.b.segment, nb.b.data, old.segment, old.ptr,
                               dataSize(ow))}}} : TRUE

\* the upgrade branch of getWritableStructPointer: the struct at old, described
\* by the pointer word ow, is too small for size and moves to a new location
upgradeStruct(A, ref, segment, size, old, ow) ==
    CHOOSE res \in UNION
      {{upgradeCopy(structAllocated(al, Max(dataSize(ow), size.data),
                                    Max(ptrCount(ow), size.pointers)), old, ow) :
          al \in {allocate(z, ref, segment,
                           Max(dataSize(ow), size.data) + Max(ptrCount(ow), size.pointers),
                           STRUCT)}} :
         z \in {zeroPointerAndFars(A, segment, ref)}} : TRUE

\* a getWritableStructPointer that moves the struct whenever its sizes are not
\* the ones asked for
getExistingStructExact(A, ref, segment, size, old, ow) ==
    IF Kind(ow) # STRUCT THEN initStructPointer(A, ref, segment, size)
    ELSE IF dataSize(ow) # size.data \/ ptrCount(ow) # size.pointers
    THEN upgradeStruct(A, ref, segment, size, old, ow)
    ELSE [A |-> A,
          b |-> StructBuilder(old.segment, old.ptr, old.ptr + dataSize(ow),
                              dataSize(ow), ptrCount(ow))]

\* getWritableStructPointer on a non-null pointer that leads to old
getExistingStruct(A, ref, segment, size, old, ow) ==
    IF Kind(ow) # STRUCT THEN initStructPointer(A, ref, segment, size)
    ELSE IF dataSize(ow) < size.data \/ ptrCount(ow) < size.pointers
    THEN upgradeStruct(A, ref, segment, size, old, ow)
    ELSE [A |-> A,
          b |-> StructBuilder(old.segment, old.ptr, old.ptr + dataSize(ow),
                              dataSize(ow), ptrCount(ow))]

\* WireHelpers::getWritableStructPointer with no default value
getWritableStructPointer(A, ref, segment, size) ==
    IF isNull(GetWord(A, ref.s, ref.a)) THEN initStructPointer(A, ref, segment, size)
    ELSE CHOOSE res \in
           {getExistingStruct(A, ref, segment, size, old, GetWord(A, old.ref.s, old.ref.a)) :
              old \in {followFarsBuilder(A, ref, segment)}} : TRUE

\* ListBuilder(segment, ptr, step, elementCount, structDataSize, structPointerCount):
\* ptr is a word position, step and structDataSize are in bits
ListBuilder(segment, ptr, step, count, dataBits, pc) ==
    [segment |-> segment, ptr |-> ptr, step |-> step, elementCount |-> count,
     structDataSize |-> dataBits, structPointerCount |-> pc]

\* initListPointer after allocate: listRef.set(elementSize, elementCount)
listAllocated(al, count, es) ==
    [A |-> SetWord(al.A, al.ref.s, al.ref.a,
                   listRefSet(GetWord(al.A, al.ref.s, al.ref.a), es, count)),
     l |-> ListBuilder(al.segment, al.ptr,
                       dataBitsPerElement(es) + pointersPerElement(es) * BITS_PER_WORD, count,
                       dataBitsPerElement(es), pointersPerElement(es))]

\* WireHelpers::initListPointer
initListPointer(A, ref, segment, count, es) ==
    CHOOSE res \in
      {listAllocated(al, count, es) :
         al \in {allocate(A, ref, segment,
                          ListWordCount(count, dataBitsPerElement(es)
                                                 + pointersPerElement(es) * BITS_PER_WORD),
                          LIST)}} : TRUE

\* initStructListPointer after allocate: listRef.setInlineComposite(wordCount),
\* the tag word in front of the elements
structListAllocated(al, count, size) ==
    [A |-> SetWord(
             SetWord(al.A, al.ref.s, al.ref.a,
                     listRefSet(GetWord(al.A, al.ref.s, al.ref.a), INLINE_COMPOSITE,
                                count * (size.data + size.pointers))),
             al.segment, al.ptr,
             structRefSet(setKindAndInlineCompositeListElementCount(
                              GetWord(al.A, al.segment, al.ptr), STRUCT, count),
                          size.data, size.pointers)),
     l |-> ListBuilder(al.segment, al.ptr + POINTER_SIZE_IN_WORDS,
                       (size.data + size.pointers) * BITS_PER_WORD, count,
                       size.data * BITS_PER_WORD, size.pointers)]

\* WireHelpers::initStructListPointer
initStructListPointer(A, ref, segment, count, size) ==
    IF size.enc # INLINE_COMPOSITE THEN initListPointer(A, ref, segment, count, size.enc)
    ELSE CHOOSE res \in
           {structListAllocated(al, count, size) :
              al \in {allocate(A, ref, segment,
                               POINTER_SIZE_IN_WORDS + count * (size.data + size.pointers),
                               LIST)}} : TRUE

\* byte b of segment seg, and the bits-to-bytes rounding of roundUpToBytes
ByteOfSegment(A, seg, b) == A.segs[seg + 1].words[(b \div 8) + 1][(b % 8) + 1]

roundUpToBytes(bits) == (bits + 7) \div 8

\* memset(ptr, 0, n bytes) at word ptr of segment seg
ZeroByteRange(A, seg, ptr, n) ==
    [A EXCEPT !.segs[seg + 1].words =
        [i \in 1..Len(@) |->
            [j \in 1..8 |-> IF 8 * (i - 1) + (j - 1) >= 8 * ptr
                               /\ 8 * (i - 1) + (j - 1) < 8 * ptr + n
                            THEN 0 ELSE @[i][j]]]]

\* the data copy loops without the widening of bits: a list of bits is copied
\* byte by byte, eight elements to a slot
copyDataElementsPacked(A, dstSeg, dst, newBytes, srcSeg, src, oldBits, count) ==
    [A EXCEPT !.segs[dstSeg + 1].words =
        [i \in 1..Len(@) |->
            [j \in 1..8 |->
                LET b == 8 * (i - 1) + (j - 1) - 8 * dst
                    e == b \div newBytes
                    k == b % newBytes
                IN  IF b < 0 \/ b >= count * newBytes THEN @[i][j]
                    ELSE IF oldBits = 1
                    THEN IF k = 0 THEN ByteOfSegment(A, srcSeg, 8 * src + e \div 8) ELSE @[i][j]
                    ELSE IF k < oldBits \div 8
                    THEN ByteOfSegment(A, srcSeg, 8 * src + e * (oldBits \div 8) + k)
                    ELSE @[i][j]]]]

\* the data copy loops of the list upgrades: element e of the old list, oldBits
\* wide from word src of srcSeg on, is stored at the start of the e-th slot of
\* newBytes bytes from word dst of dstSeg on (a bit becomes a byte 0 or 1)
copyDataElements(A, dstSeg, dst, newBytes, srcSeg, src, oldBits, count) ==
    [A EXCEPT !.segs[dstSeg + 1].words =
        [i \in 1..Len(@) |->
            [j \in 1..8 |->
                LET b == 8 * (i - 1) + (j - 1) - 8 * dst
                    e == b \div newBytes
                    k == b % newBytes
                IN  IF b < 0 \/ b >= count * newBytes THEN @[i][j]
                    ELSE IF oldBits = 1
                    THEN IF k = 0
                         THEN (ByteOfSegment(A, srcSeg, 8 * src + e \div 8) \div (2 ^ (e % 8))) % 2
                         ELSE @[i][j]
                    ELSE IF k < oldBits \div 8
                    THEN ByteOfSegment(A, srcSeg, 8 * src + e * (oldBits \div 8) + k)
                    ELSE @[i][j]]]]

RECURSIVE upgradeElements(_, _, _, _, _, _, _, _, _, _)
\* the element loop of the struct list upgrades: copy the data section of each
\* old element, transfer its pointers, advance by the old and the new step
upgradeElements(A, dstSeg, dst, newDataSize, newStep, srcSeg, src, oldDataSize, oldPointers, count) ==
    IF count = 0 THEN A
    ELSE CHOOSE res \in
           {upgradeElements(y, dstSeg, dst + newStep, newDataSize, newStep, srcSeg,
                            src + oldDataSize + oldPointers, oldDataSize, oldPointers,
                            count - 1) :
              y \in UNION
                {{transferPointers(x, dstSeg, dst + newDataSize, srcSeg, src + oldDataSize,
                                   oldPointers)} :
                   x \in {CopyWords(A, dstSeg, dst, srcSeg, src, oldDataSize)}}} : TRUE

\* a struct list upgrade once the new list is allocated (nl): the old list of
\* count elements at old is copied element by element and its words are zeroed;
\* oldSize is the old element size, oldDataSize and oldPointers the old
\* element's sections in words when they are whole words
listUpgraded(nl, old, oldSize, oldDataSize, oldPointers, count) ==
    CHOOSE res \in
      {[A |-> IF oldSize = INLINE_COMPOSITE \/ oldSize = POINTER
              THEN IF oldSize = INLINE_COMPOSITE
                   THEN ZeroWords(x, old.segment, old.ptr, (oldDataSize + oldPointers) * count)
                   ELSE ZeroByteRange(x, old.segment, old.ptr,
                                  roundUpToBytes(BITS_PER_WORD * count))
              ELSE ZeroByteRange(x, old.segment, old.ptr,
                             roundUpToBytes(dataBitsPerElement(oldSize) * count)),
        l |-> nl.l] :
         x \in {IF oldSize = INLINE_COMPOSITE \/ oldSize = POINTER
                THEN upgradeElements(nl.A, nl.l.segment, nl.l.ptr,
                                     nl.l.structDataSize \div BITS_PER_WORD,
                                     nl.l.step \div BITS_PER_WORD, old.segment, old.ptr,
                                     oldDataSize, oldPointers, count)
                ELSE copyDataElements(nl.A, nl.l.segment, nl.l.ptr, nl.l.step \div 8,
                                      old.segment, old.ptr, dataBitsPerElement(oldSize),
                                      count)}} : TRUE

\* the ListBuilder over an existing list of primitives or pointers
existingList(old, ow) ==
    ListBuilder(old.segment, old.ptr,
                dataBitsPerElement(elementSize(ow))
                  + pointersPerElement(elementSize(ow)) * BITS_PER_WORD,
                elementCount(ow), dataBitsPerElement(elementSize(ow)),
                pointersPerElement(elementSize(ow)))

\* the old list with ptr past the tag word of an inline-composite list
PastTag(old) == [old EXCEPT !.ptr = @ + POINTER_SIZE_IN_WORDS]

\* getWritableStructListPointer: the upgrades to an inline-composite list of
\* count elements of size newSize, from the old list of element size oldSize
upgradeToStructList(A, origRef, origSegment, count, newSize, old, oldSize, oldDataSize, oldPointers) ==
    CHOOSE res \in UNION
      {{listUpgraded(structListAllocated(al, count, newSize), old, oldSize, oldDataSize,
                     oldPointers, count) :
          al \in {allocate(z, origRef, origSegment,
                           count * (newSize.data + newSize.pointers) + POINTER_SIZE_IN_WORDS,
                           LIST)}} :
         z \in {zeroPointerAndFars(A, origSegment, origRef)}} : TRUE

\* getWritableStructListPointer: the upgrade of a list of data elements to a
\* list of larger data elements
upgradeToDataList(A, origRef, origSegment, count, enc, old, oldSize) ==
    CHOOSE res \in UNION
      {{listUpgraded(listAllocated(al, count, enc), old, oldSize, 0, 0, count) :
          al \in {allocate(z, origRef, origSegment,
                           ListWordCount(count, dataBitsPerElement(enc)), LIST)}} :
         z \in {zeroPointerAndFars(A, origSegment, origRef)}} : TRUE

\* getWritableStructListPointer on an existing inline-composite list with tag
\* word tag
getInlineCompositeList(A, origRef, origSegment, size, old, tag) ==
    IF Kind(tag) # STRUCT THEN [A |-> A, l |-> [segment |-> NoSegment]]
    ELSE IF dataSize(tag) >= size.data /\ ptrCount(tag) >= size.pointers
    THEN [A |-> A,
          l |-> ListBuilder(old.segment, old.ptr + POINTER_SIZE_IN_WORDS,
                            wordSize(tag) * BITS_PER_WORD,
                            inlineCompositeListElementCount(tag),
                            dataSize(tag) * BITS_PER_WORD, ptrCount(tag))]
    ELSE upgradeToStructList(A, origRef, origSegment, inlineCompositeListElementCount(tag),
                             StructSize(Max(dataSize(tag), size.data),
                                        Max(ptrCount(tag), size.pointers), INLINE_COMPOSITE),
                             PastTag(old), INLINE_COMPOSITE, dataSize(tag), ptrCount(tag))

\* getWritableStructListPointer on an existing list of primitives or pointers
\* described by ow
getPlainList(A, origRef, origSegment, size, old, ow) ==
    IF elementSize(ow) = size.enc THEN [A |-> A, l |-> existingList(old, ow)]
    ELSE IF size.enc = POINTER /\ elementSize(ow) \notin {POINTER, VOID}
    THEN [A |-> A, l |-> [segment |-> NoSegment]]
    ELSE IF size.enc \in BIT..EIGHT_BYTES /\ elementSize(ow) = POINTER
    THEN [A |-> A, l |-> [segment |-> NoSegment]]
    ELSE IF elementSize(ow) >= size.enc THEN [A |-> A, l |-> existingList(old, ow)]
    ELSE IF elementSize(ow) = VOID
    THEN initStructListPointer(A, origRef, origSegment, elementCount(ow), size)
    ELSE IF size.enc = INLINE_COMPOSITE
    THEN upgradeToStructList(A, origRef, origSegment, elementCount(ow),
                             IF elementSize(ow) = POINTER
                             THEN StructSize(size.data, Max(size.pointers, 1), INLINE_COMPOSITE)
                             ELSE StructSize(Max(size.data, 1), size.pointers, INLINE_COMPOSITE),
                             old, elementSize(ow), 0, pointersPerElement(elementSize(ow)))
    ELSE upgradeToDataList(A, origRef, origSegment, elementCount(ow), size.enc, old,
                           elementSize(ow))

\* getWritableStructListPointer on a non-null pointer that leads to old
getExistingStructList(A, origRef, origSegment, size, old, ow) ==
    IF Kind(ow) # LIST THEN [A |-> A, l |-> [segment |-> NoSegment]]
    ELSE IF elementSize(ow) = INLINE_COMPOSITE
    THEN getInlineCompositeList(A, origRef, origSegment, size, old,
                                GetWord(A, old.segment, old.ptr))
    ELSE getPlainList(A, origRef, origSegment, size, old, ow)

\* WireHelpers::getWritableStructListPointer with no default value
getWritableStructListPointer(A, origRef, origSegment, size) ==
    IF isNull(GetWord(A, origRef.s, origRef.a)) THEN [A |-> A, l |-> [segment |-> NoSegment]]
    ELSE CHOOSE res \in
           {getExistingStructList(A, origRef, origSegment, size, old,
                                  GetWord(A, old.ref.s, old.ref.a)) :
              old \in {followFarsBuilder(A, origRef, origSegment)}} : TRUE

\* ListBuilder::getStructElement for lists whose step is a whole number of words
getStructElementBuilder(l, index) ==
    StructBuilder(l.segment, l.ptr + (index * l.step) \div BITS_PER_WORD,
                  l.ptr + (index * l.step) \div BITS_PER_WORD
                        + l.structDataSize \div BITS_PER_WORD,
                  l.structDataSize \div BITS_PER_WORD, l.structPointerCount)

\* Text::Builder::copyFrom: the bytes of value stored from word ptr of segment on
WriteBytes(A, segment, ptr, value) ==
    [A EXCEPT !.segs[segment + 1].words =
        [i \in 1..Len(@) |->
            IF i > ptr /\ i <= ptr + roundUpBytesToWords(Len(value))
            THEN [j \in 1..8 |-> IF 8 * (i - ptr - 1) + j <= Len(value)
                                 THEN value[8 * (i - ptr - 1) + j]
                                 ELSE @[i][j]]
            ELSE @[i]]]

\* the bytes a Text::Builder(ptr, size) of segment spans
ReadBytes(A, segment, ptr, size) ==
    [k \in 1..size |-> GetWord(A, segment, ptr + (k - 1) \div 8)[((k - 1) % 8) + 1]]

\* initTextPointer after allocate: listRef.set(BYTE, byteSize), the
\* Text::Builder spans size bytes
textAllocated(al, byteSize, size) ==
    [A |-> SetWord(al.A, al.ref.s, al.ref.a,
                   listRefSet(GetWord(al.A, al.ref.s, al.ref.a), BYTE, byteSize)),
     segment |-> al.segment, ptr |-> al.ptr, size |-> size]

\* initTextPointer that leaves no room for the NUL terminator
initTextPointerNoTerminator(A, ref, segment, size) ==
    CHOOSE res \in
      {textAllocated(al, size, size) :
         al \in {allocate(A, ref, segment, (size + 7) \div 8, LIST)}} : TRUE

\* WireHelpers::initTextPointer: a byte list of size + 1 elements
initTextPointer(A, ref, segment, size) ==
    CHOOSE res \in
      {textAllocated(al, size + 1, size) :
         al \in {allocate(A, ref, segment, roundUpBytesToWords(size + 1), LIST)}} : TRUE

\* WireHelpers::setTextPointer
setTextPointer(A, ref, segment, value) ==
    CHOOSE res \in {WriteBytes(t.A, t.segment, t.ptr, value) :
                      t \in {initTextPointer(A, ref, segment, Len(value))}} : TRUE

\* WireHelpers::getWritableTextPointer with the default "" on a non-null
\* pointer to a byte list: the Text::Builder, one byte shorter than the list
getWritableTextPointer(A, ref, segment) ==
    LET f == followFarsBuilder(A, ref, segment)
    IN  [segment |-> f.segment, ptr |-> f.ptr,
         size |-> elementCount(GetWord(A, f.ref.s, f.ref.a)) - 1]

\* ---------------------------------------------------------------------------
\* The builder state machine: a message builder's arena, the root pointer slot
\* at word 0 of segment 0, the StructBuilder (cur) and ListBuilder (lst) the
\* caller holds, and a record of the last operation: the arena before it (pre),
\* the pointer slot it acted on and what it returned (res).

\* number of builder operations in one run
MaxOps == 4

\* segment sizes of the message builder: 0 gives every allocation a segment of
\* exactly the size asked for
SegmentSizes == {0, 4, 16}

\* struct sizes the schema asks for
StructSizes ==
    {StructSize(0, 1, POINTER), StructSize(1, 1, INLINE_COMPOSITE),
     StructSize(1, 2, INLINE_COMPOSITE)}

\* element struct sizes the schema asks for in struct lists: one whose
\* preferred list encoding is a list of words, two encoded inline-composite
StructListSizes ==
    {StructSize(1, 0, EIGHT_BYTES), StructSize(1, 1, INLINE_COMPOSITE),
     StructSize(1, 2, INLINE_COMPOSITE)}

\* texts that are set: one byte, and eight bytes (two words with the NUL)
TextValues == {<<97>>, <<97, 98, 99, 100, 101, 102, 103, 104>>}

\* element sizes and the element count of the lists that are initialised
ListElementSizes == {BYTE, POINTER}

ListCount == 2

\* a data word that is stored into structs
DataValue == <<7, 0, 0, 0, 0, 0, 0, 0>>

\* no builder held
NoBuilder == [segment |-> NoSegment]

RootRef == Ref(0, 0)

InitBuilder ==
    /\ \E S \in SegmentSizes :
         bd = [pc |-> "on", A |-> [segs |-> <<>>, S |-> S], pre |-> [segs |-> <<>>, S |-> S],
               root |-> FALSE, cur |-> NoBuilder, lst |-> NoBuilder, n |-> 0,
               op |-> "none", slot |-> RootRef, arg |-> <<>>, res |-> NoBuilder]
    /\ pk = Off /\ rd = Off /\ fr = Off

\* the caller may run one more operation
CanBuild == bd.pc = "on" /\ bd.n < MaxOps

\* one builder operation op acted on slot of arena pre (the root slot included)
\* and left arena A, the builders cur and lst with the caller, and returned res
Built(op, slot, arg, pre, A, cur, lst, res) ==
    /\ bd' = [bd EXCEPT !.op = op, !.slot = slot, !.arg = arg, !.pre = pre, !.A = A,
                        !.root = TRUE, !.cur = cur, !.lst = lst, !.res = res, !.n = @ + 1]
    /\ UNCHANGED <<pk, rd, fr>>

\* the arena once the message's root pointer word is allocated: the first word
\* of segment 0
WithRoot(A, root) ==
    IF root THEN A
    ELSE LET g == getSegmentWithAvailable(A, POINTER_SIZE_IN_WORDS)
         IN  [g.A EXCEPT !.segs[g.id + 1] =
                 segmentAllocate(g.A.segs[g.id + 1], POINTER_SIZE_IN_WORDS).sb]

\* StructBuilder::initRoot
InitRoot ==
    /\ CanBuild
    /\ \E size \in StructSizes :
            \E pre \in {WithRoot(bd.A, bd.root)} :
            \E out \in {initStructPointer(pre, RootRef, 0, size)} :
                Built("initStruct", RootRef, size, pre, out.A, out.b, NoBuilder, out.b)

\* StructBuilder::getRoot
GetRoot ==
    /\ CanBuild
    /\ \E size \in StructSizes :
            \E pre \in {WithRoot(bd.A, bd.root)} :
            \E out \in {getWritableStructPointer(pre, RootRef, 0, size)} :
                Built("getStruct", RootRef, size, pre, out.A, out.b, NoBuilder, out.b)

\* the pointer fields of the held StructBuilder
FieldIndexes == IF bd.cur.segment = NoSegment THEN {} ELSE 0..(bd.cur.pointerCount - 1)

FieldRef(i) == Ref(bd.cur.segment, bd.cur.pointers + i)

\* StructBuilder::initStructField
InitStructField ==
    /\ CanBuild
    /\ \E i \in FieldIndexes, size \in StructSizes :
            \E out \in {initStructPointer(bd.A, FieldRef(i), bd.cur.segment, size)} :
                Built("initStruct", FieldRef(i), size, bd.A, out.A, out.b, NoBuilder, out.b)

\* StructBuilder::getStructField
GetStructFieldBuilder ==
    /\ CanBuild
    /\ \E i \in FieldIndexes, size \in StructSizes :
            \E out \in {getWritableStructPointer(bd.A, FieldRef(i), bd.cur.segment, size)} :
                Built("getStruct", FieldRef(i), size, bd.A, out.A, out.b, NoBuilder, out.b)

\* StructBuilder::initListField
InitListField ==
    /\ CanBuild
    /\ \E i \in FieldIndexes, es \in ListElementSizes :
            \E out \in {initListPointer(bd.A, FieldRef(i), bd.cur.segment, ListCount, es)} :
                Built("initList", FieldRef(i), es, bd.A, out.A, bd.cur, out.l, out.l)

\* StructBuilder::initStructListField
InitStructListField ==
    /\ CanBuild
    /\ \E i \in FieldIndexes, size \in StructListSizes :
            \E out \in {initStructListPointer(bd.A, FieldRef(i), bd.cur.segment, ListCount, size)} :
                Built("initStructList", FieldRef(i), size, bd.A, out.A, bd.cur, out.l, out.l)

\* StructBuilder::getStructListField
GetStructListField ==
    /\ CanBuild
    /\ \E i \in FieldIndexes, size \in StructListSizes :
            \E out \in {getWritableStructListPointer(bd.A, FieldRef(i), bd.cur.segment, size)} :
                Built("getStructList", FieldRef(i), size, bd.A, out.A, bd.cur, out.l, out.l)

\* StructBuilder::setBlobField<Text>
SetTextField ==
    /\ CanBuild
    /\ \E i \in FieldIndexes, v \in TextValues :
            \E out \in {setTextPointer(bd.A, FieldRef(i), bd.cur.segment, v)} :
                Built("setText", FieldRef(i), v, bd.A, out, bd.cur, NoBuilder, NoBuilder)

\* StructBuilder::setDataField of a whole word of the data section
SetDataField ==
    /\ CanBuild
    /\ bd.cur.segment # NoSegment
    /\ \E j \in 0..(bd.cur.dataSize - 1) :
        Built("setData", Ref(bd.cur.segment, bd.cur.data + j), DataValue, bd.A,
              SetWord(bd.A, bd.cur.segment, bd.cur.data + j, DataValue),
              bd.cur, bd.lst, NoBuilder)

\* the elements of the held ListBuilder, when they are whole words
ElementIndexesBuilder ==
    IF bd.lst.segment = NoSegment \/ bd.lst.step % BITS_PER_WORD # 0 THEN {}
    ELSE 0..(bd.lst.elementCount - 1)

\* ListBuilder::getStructElement
GetStructElementBuilder ==
    /\ CanBuild
    /\ \E index \in ElementIndexesBuilder :
            Built("getElement", bd.slot, index, bd.A, bd.A,
                  getStructElementBuilder(bd.lst, index), NoBuilder,
                  getStructElementBuilder(bd.lst, index))

\* ListBuilder::setBlobElement<Text> on a list of pointers
SetTextElement ==
    /\ CanBuild
    /\ \E index \in ElementIndexesBuilder, v \in TextValues :
            /\ bd.lst.structDataSize = 0 /\ bd.lst.structPointerCount = 1
            /\ \E ref \in {Ref(bd.lst.segment, bd.lst.ptr + index)} :
               \E out \in {setTextPointer(bd.A, ref, bd.lst.segment, v)} :
                   Built("setText", ref, v, bd.A, out, bd.cur, bd.lst, NoBuilder)

\* a reusable message builder starts over: SegmentBuilder::reset on every
\* segment; the root pointer is allocated again by the next initRoot or getRoot
Reset ==
    /\ CanBuild /\ bd.root
    /\ bd' = [bd EXCEPT !.op = "reset", !.slot = RootRef, !.arg = <<>>, !.pre = bd.A,
                        !.A = [bd.A EXCEPT !.segs = [k \in 1..Len(@) |-> reset(@[k])]],
                        !.root = FALSE, !.cur = NoBuilder, !.lst = NoBuilder,
                        !.res = NoBuilder, !.n = @ + 1]
    /\ UNCHANGED <<pk, rd, fr>>

NextBuilder ==
    \/ InitRoot \/ GetRoot \/ InitStructField \/ GetStructFieldBuilder
    \/ InitListField \/ InitStructListField \/ GetStructListField
    \/ SetTextField \/ SetDataField
    \/ GetStructElementBuilder \/ SetTextElement \/ Reset

SpecBuilder == InitBuilder /\ [][NextBuilder]_vars

\* ---------------------------------------------------------------------------
\* Properties of the builder

\* deeper than any object tree that MaxOps operations can build
MaxDepth == MaxOps + 1

\* [from, to) lies in the allocated prefix of a segment present in the arena
InPrefix(A, seg, from, to) ==
    /\ seg >= 0 /\ seg < Len(A.segs)
    /\ 0 <= from /\ from <= to /\ to <= A.segs[seg + 1].pos

\* the number of words of the body of the list described by pointer word w
ListBodyWords(w) ==
    IF elementSize(w) = INLINE_COMPOSITE
    THEN POINTER_SIZE_IN_WORDS + inlineCompositeWordCount(w)
    ELSE ListWordCount(elementCount(w),
                       dataBitsPerElement(elementSize(w))
                         + pointersPerElement(elementSize(w)) * BITS_PER_WORD)

\* the positions in segment seg of the pointers held by the object at ptr
\* described by pointer word w
PointersOf(A, seg, w, ptr) ==
    IF Kind(w) = STRUCT THEN {ptr + dataSize(w) + i : i \in 0..(ptrCount(w) - 1)}
    ELSE IF elementSize(w) = POINTER THEN {ptr + i : i \in 0..(elementCount(w) - 1)}
    ELSE IF elementSize(w) = INLINE_COMPOSITE
    THEN LET tag == GetWord(A, seg, ptr)
         IN  {ptr + 1 + e * wordSize(tag) + dataSize(tag) + i :
                e \in 0..(inlineCompositeListElementCount(tag) - 1),
                i \in 0..(ptrCount(tag) - 1)}
    ELSE {}

\* the number of words of the object described by pointer word w
BodyWords(w) == IF Kind(w) = STRUCT THEN wordSize(w) ELSE ListBodyWords(w)

RECURSIVE PointerResolves(_, _, _, _)
\* the object at ptr of seg described by w lies in an allocated prefix, and so
\* does everything its pointers lead to
ObjectResolves(A, seg, w, ptr, d) ==
    /\ Kind(w) \in {STRUCT, LIST}
    /\ InPrefix(A, seg, ptr, ptr + BodyWords(w))
    /\ Kind(w) = LIST /\ elementSize(w) = INLINE_COMPOSITE =>
         /\ Kind(GetWord(A, seg, ptr)) = STRUCT
         /\ inlineCompositeListElementCount(GetWord(A, seg, ptr)) * wordSize(GetWord(A, seg, ptr))
              <= inlineCompositeWordCount(w)
    /\ \A p \in PointersOf(A, seg, w, ptr) : PointerResolves(A, seg, p, d - 1)

\* the pointer at word a of segment s is null or resolves, through a
\* well-formed landing pad if it is far, to such an object
PointerResolves(A, s, a, d) ==
    LET w == GetWord(A, s, a)
        padSeg == getSegment(segmentId(w))
        pad == farPositionInSegment(w)
    IN  IF isNull(w) THEN TRUE
        ELSE IF d = 0 THEN FALSE
        ELSE IF Kind(w) # FAR THEN ObjectResolves(A, s, w, Target(a, w), d)
        ELSE /\ segmentId(w)[2] = 0
             /\ InPrefix(A, padSeg, pad, pad + (IF isDoubleFar(w) THEN 2 ELSE 1))
             /\ IF ~isDoubleFar(w)
                THEN ObjectResolves(A, padSeg, GetWord(A, padSeg, pad),
                                    Target(pad, GetWord(A, padSeg, pad)), d)
                ELSE /\ Kind(GetWord(A, padSeg, pad)) = FAR
                     /\ ~isDoubleFar(GetWord(A, padSeg, pad))
                     /\ segmentId(GetWord(A, padSeg, pad))[2] = 0
                     /\ OffsetField(GetWord(A, padSeg, pad + 1)) = 0
                     /\ ObjectResolves(A, getSegment(segmentId(GetWord(A, padSeg, pad))),
                                       GetWord(A, padSeg, pad + 1),
                                       farPositionInSegment(GetWord(A, padSeg, pad)), d)

\* C4: after every builder primitive, every non-null pointer reachable from
\* the root resolves, through well-formed landing pads where it is far, to an
\* object wholly inside the allocated prefix of a segment of the arena.
C4_PointersResolveInPrefix ==
    bd.pc = "on" /\ bd.root =>
        /\ InPrefix(bd.A, 0, 0, POINTER_SIZE_IN_WORDS)
        /\ PointerResolves(bd.A, 0, 0, MaxDepth)

\* a struct upgrade that had to transfer a pointer through a double-far
\* landing pad left a message that still resolves
C4_Witness ==
    /\ bd.pc = "on" /\ bd.op = "getStruct"
    /\ \E i \in 0..(bd.res.pointerCount - 1) :
         /\ Kind(GetWord(bd.A, bd.res.segment, bd.res.pointers + i)) = FAR
         /\ isDoubleFar(GetWord(bd.A, bd.res.segment, bd.res.pointers + i))
    /\ PointerResolves(bd.A, 0, 0, MaxDepth)


\* what the pointer at ref of arena A resolves to: the kind and size fields of
\* the pointer that describes the object, where the object is, and its words
Resolved(A, ref, segment) ==
    IF isNull(GetWord(A, ref.s, ref.a)) THEN [kind |-> "null"]
    ELSE LET f == followFarsBuilder(A, ref, segment)
             t == GetWord(A, f.ref.s, f.ref.a)
         IN  [kind |-> Kind(t), sizes |-> SubSeq(t, 5, 8), segment |-> f.segment,
              ptr |-> f.ptr,
              words |-> SubSeq(A.segs[f.segment + 1].words, f.ptr + 1, f.ptr + BodyWords(t))]

\* the struct the slot of the last operation led to before the operation
OldStruct == followFarsBuilder(bd.pre, bd.slot, bd.slot.s)

OldStructRef == GetWord(bd.pre, OldStruct.ref.s, OldStruct.ref.a)

\* the last operation was a getWritableStruct that upgraded an existing struct
Upgraded ==
    /\ bd.pc = "on" /\ bd.op = "getStruct"
    /\ ~isNull(GetWord(bd.pre, bd.slot.s, bd.slot.a))
    /\ Kind(OldStructRef) = STRUCT
    /\ (dataSize(OldStructRef) < bd.arg.data \/ ptrCount(OldStructRef) < bd.arg.pointers)

\* C5: after getWritableStruct upgraded a struct of size (D, R) to
\* (max(D, D'), max(R, R')), the first D data words of the new struct are the
\* old data words and each of the first R pointers resolves to the same object
\* (kind, size fields, place and words) as before.
C5_UpgradePreservesFields ==
    Upgraded =>
        /\ bd.res.dataSize = Max(dataSize(OldStructRef), bd.arg.data)
        /\ bd.res.pointerCount = Max(ptrCount(OldStructRef), bd.arg.pointers)
        /\ \A j \in 0..(dataSize(OldStructRef) - 1) :
             GetWord(bd.A, bd.res.segment, bd.res.data + j)
               = GetWord(bd.pre, OldStruct.segment, OldStruct.ptr + j)
        /\ \A i \in 0..(ptrCount(OldStructRef) - 1) :
             Resolved(bd.A, Ref(bd.res.segment, bd.res.pointers + i), bd.res.segment)
               = Resolved(bd.pre,
                          Ref(OldStruct.segment, OldStruct.ptr + dataSize(OldStructRef) + i),
                          OldStruct.segment)

\* an upgrade moved a struct holding a data word and a pointer to an object
\* into another segment
C5_Witness ==
    /\ Upgraded
    /\ bd.res.segment # OldStruct.segment
    /\ dataSize(OldStructRef) > 0
    /\ GetWord(bd.A, bd.res.segment, bd.res.data) = DataValue
    /\ \E i \in 0..(ptrCount(OldStructRef) - 1) :
         /\ Kind(GetWord(bd.pre, OldStruct.segment,
                         OldStruct.ptr + dataSize(OldStructRef) + i)) = LIST
         /\ Kind(GetWord(bd.A, bd.res.segment, bd.res.pointers + i)) = FAR
         /\ Resolved(bd.A, Ref(bd.res.segment, bd.res.pointers + i), bd.res.segment).kind = LIST

\* the arena's segments as a reader sees them
SegmentsOf(A) == [k \in 1..Len(A.segs) |-> A.segs[k].words]

\* the bytes of a Text::Reader
TextOf(mem, r) == [k \in 1..r.size |-> ByteAt(mem, r.segment, r.ptr, k - 1)]

\* C6: after setText(slot, v), getWritableText and readText on the slot return
\* exactly the bytes of v, with size |v|.
C6_SetTextGetText ==
    bd.pc = "on" /\ bd.op = "setText" =>
        /\ getWritableTextPointer(bd.A, bd.slot, bd.slot.s).size = Len(bd.arg)
        /\ ReadBytes(bd.A, getWritableTextPointer(bd.A, bd.slot, bd.slot.s).segment,
                     getWritableTextPointer(bd.A, bd.slot, bd.slot.s).ptr, Len(bd.arg)) = bd.arg
        /\ readTextPointer(SegmentsOf(bd.A), ReadingContext(1048576), bd.slot.s, bd.slot).r.size
             = Len(bd.arg)
        /\ TextOf(SegmentsOf(bd.A),
                  readTextPointer(SegmentsOf(bd.A), ReadingContext(1048576), bd.slot.s,
                                  bd.slot).r) = bd.arg

\* an eight-byte text replaced an existing object in a segment without room
C6_Witness ==
    /\ bd.pc = "on" /\ bd.op = "setText"
    /\ Len(bd.arg) = 8
    /\ ~isNull(GetWord(bd.pre, bd.slot.s, bd.slot.a))
    /\ Kind(GetWord(bd.A, bd.slot.s, bd.slot.a)) = FAR
    /\ ReadBytes(bd.A, getWritableTextPointer(bd.A, bd.slot, bd.slot.s).segment,
                 getWritableTextPointer(bd.A, bd.slot, bd.slot.s).ptr, 8) = bd.arg


\* the words of segment seg from ptr on, n of them
WordsAt(A, seg, ptr, n) == SubSeq(A.segs[seg + 1].words, ptr + 1, ptr + n)

\* the body the last operation handed out: the data and pointer sections of
\* a StructBuilder, the elements of a ListBuilder
FreshBody ==
    IF bd.op = "initStruct"
    THEN WordsAt(bd.A, bd.res.segment, bd.res.data, bd.res.dataSize + bd.res.pointerCount)
    ELSE WordsAt(bd.A, bd.res.segment, bd.res.ptr,
                 IF bd.res.step % BITS_PER_WORD = 0
                 THEN bd.res.elementCount * (bd.res.step \div BITS_PER_WORD)
                 ELSE ListWordCount(bd.res.elementCount, bd.res.step))

\* C7: every body word handed out by initStruct, initList or initStructList
\* is zero when it is returned, whatever operations came before (overwrites,
\* upgrades, spills into new segments, resets).
C7_FreshBodiesAreZero ==
    bd.pc = "on" /\ bd.op \in {"initStruct", "initList", "initStructList"} =>
        \A k \in 1..Len(FreshBody) : FreshBody[k] = ZeroWord

\* a struct was initialised after a reset of an arena of several segments
C7_Witness ==
    /\ bd.pc = "on" /\ bd.op = "initStruct"
    /\ Len(bd.A.segs) > 1
    /\ bd.A.segs[Len(bd.A.segs)].pos = 0
    /\ Len(FreshBody) > 1
    /\ \A k \in 1..Len(FreshBody) : FreshBody[k] = ZeroWord

RECURSIVE ReachablePointer(_, _, _, _)
\* the words of the object at ptr of seg described by w, and of everything
\* its pointers lead to, as <<segment, position>> pairs
ReachableObject(A, seg, w, ptr, d) ==
    {<<seg, ptr + k>> : k \in 0..(BodyWords(w) - 1)}
      \cup UNION {ReachablePointer(A, seg, p, d - 1) : p \in PointersOf(A, seg, w, ptr)}

\* the words reachable through the pointer at word a of segment s: landing
\* pads, the object, and what the object's pointers reach
ReachablePointer(A, s, a, d) ==
    LET w == GetWord(A, s, a)
        padSeg == getSegment(segmentId(w))
        pad == farPositionInSegment(w)
    IN  IF isNull(w) \/ d = 0 THEN {}
        ELSE IF Kind(w) # FAR THEN ReachableObject(A, s, w, Target(a, w), d)
        ELSE IF ~isDoubleFar(w)
        THEN {<<padSeg, pad>>}
               \cup ReachableObject(A, padSeg, GetWord(A, padSeg, pad),
                                    Target(pad, GetWord(A, padSeg, pad)), d)
        ELSE {<<padSeg, pad>>, <<padSeg, pad + 1>>}
               \cup ReachableObject(A, getSegment(segmentId(GetWord(A, padSeg, pad))),
                                    GetWord(A, padSeg, pad + 1),
                                    farPositionInSegment(GetWord(A, padSeg, pad)), d)

\* the last operation overwrote a pointer slot that referenced a struct
OverwroteStruct ==
    /\ bd.pc = "on"
    /\ bd.op \in {"initStruct", "initList", "initStructList", "setText"}
    /\ ~isNull(GetWord(bd.pre, bd.slot.s, bd.slot.a))
    /\ Kind(OldStructRef) = STRUCT

\* C8: when an init or set overwrites a pointer slot that referenced a
\* struct, every word of the struct's body, of every object reachable through
\* its pointers and of every landing pad on the way is zero afterwards.
C8_OverwriteZeroesOldTree ==
    OverwroteStruct =>
        \A q \in ReachablePointer(bd.pre, bd.slot.s, bd.slot.a, MaxDepth) :
            GetWord(bd.A, q[1], q[2]) = ZeroWord

\* ---------------------------------------------------------------------------
\* Message framing: a built message written as a segment table followed by
\* its segments, and parsed back from a flat array or from an input stream

\* SegmentBuilder::currentlyAllocated: the words handed out so far
currentlyAllocated(sb) == SubSeq(sb.words, 1, sb.pos)

\* an arena that forgets the segments after the first
getSegmentsForOutputFirstOnly(A) ==
    [k \in 1..Min(Len(A.segs), 1) |-> currentlyAllocated(A.segs[k])]

\* BuilderArena::getSegmentsForOutput: the allocated prefix of every segment,
\* in order of segment id
getSegmentsForOutput(A) == [k \in 1..Len(A.segs) |-> currentlyAllocated(A.segs[k])]

\* a 32-bit little-endian field
LE32(n) == <<ByteOf(n, 0), ByteOf(n, 1), ByteOf(n, 2), ByteOf(n, 3)>>

\* the 32-bit little-endian field at byte p of s
U32At(s, p) == s[p + 1] + 256 * s[p + 2] + 65536 * s[p + 3] + 16777216 * s[p + 4]

\* the bytes of a sequence of byte strings, in order
RECURSIVE ConcatBytes(_)
ConcatBytes(pieces) ==
    IF pieces = <<>> THEN <<>> ELSE Head(pieces) \o ConcatBytes(Tail(pieces))

\* a table without the padding field
segmentTableUnpadded(segments) ==
    LE32(Len(segments) - 1)
      \o ConcatBytes([k \in 1..Len(segments) |-> LE32(Len(segments[k]))])

\* the segment table: the segment count minus one, each segment's word count,
\* and a padding field when that makes an odd number of 32-bit fields
segmentTable(segments) ==
    segmentTableUnpadded(segments)
      \o (IF (1 + Len(segments)) % 2 = 1 THEN LE32(0) ELSE <<>>)

\* the pieces of a framed message: the table, then each segment
framedPieces(segments) ==
    <<segmentTable(segments)>> \o [k \in 1..Len(segments) |-> Flatten(segments[k])]

\* messageToFlatArray: the framed message as one array
messageToFlatArray(segments) == ConcatBytes(framedPieces(segments))

\* TestOutputStream::write: the buffer is appended to the stream's data
TestOutputStreamWrite(data, buffer) == data \o buffer

\* writeMessage(output, segments): one write per piece
RECURSIVE writePieces(_, _)
writePieces(data, pieces) ==
    IF pieces = <<>> THEN data
    ELSE writePieces(TestOutputStreamWrite(data, Head(pieces)), Tail(pieces))

writeMessage(segments) == writePieces(<<>>, framedPieces(segments))

\* number of segments a table announces, and the bytes the table takes
tableSegmentCount(s) == U32At(s, 0) + 1

tableBytes(count) == BYTES_PER_WORD * ((count + 2) \div 2)

\* word count of segment k (from 1) in table s
tableSegmentSize(s, k) == U32At(s, 4 * k)

\* words before segment k, and the words of all count segments
RECURSIVE wordsBefore(_, _)
wordsBefore(s, k) ==
    IF k <= 1 THEN 0 ELSE wordsBefore(s, k - 1) + tableSegmentSize(s, k - 1)

\* the segments of the framed message s, the table included in s
parseSegments(s) ==
    [k \in 1..tableSegmentCount(s) |->
        [i \in 1..tableSegmentSize(s, k) |->
            WordAt(s, tableBytes(tableSegmentCount(s))
                        + BYTES_PER_WORD * (wordsBefore(s, k) + i - 1))]]

\* FlatArrayMessageReader(array): the segments found in the array
FlatArrayMessageReader(array) == parseSegments(array)

\* TestInputStream::read(buffer, minBytes, maxBytes): a lazy stream hands out
\* minBytes, the other maxBytes; asking for more than is left is an overrun
TestInputStreamRead(st, minBytes, maxBytes) ==
    [st EXCEPT !.overran = @ \/ maxBytes > Len(st.bytes) - st.pos,
               !.got = @ \o SubSeq(st.bytes, st.pos + 1,
                                   st.pos + (IF st.lazy THEN minBytes ELSE maxBytes)),
               !.pos = @ + (IF st.lazy THEN minBytes ELSE maxBytes)]

\* bytes of the framed message whose table starts got: the table and the
\* first k segments
bytesThrough(got, k) ==
    tableBytes(tableSegmentCount(got)) + BYTES_PER_WORD * wordsBefore(got, k + 1)

\* InputStreamMessageReader(stream): reads the first word of the table, the
\* rest of the table, and then at least the first segment and at most all
readSizes(st) ==
    IF tableSegmentCount(st.got) > 1
      THEN TestInputStreamRead(st, tableBytes(tableSegmentCount(st.got)) - BYTES_PER_WORD,
                               tableBytes(tableSegmentCount(st.got)) - BYTES_PER_WORD)
      ELSE st

readFirstSegment(st) ==
    TestInputStreamRead(st, bytesThrough(st.got, 1) - st.pos,
                        bytesThrough(st.got, tableSegmentCount(st.got)) - st.pos)

InputStreamMessageReader(st) ==
    readFirstSegment(readSizes(TestInputStreamRead(st, BYTES_PER_WORD, BYTES_PER_WORD)))

\* InputStreamMessageReader::getSegment(id): reads on until segment id is there
streamGetSegment(st, id) ==
    IF st.pos < bytesThrough(st.got, id + 1)
      THEN TestInputStreamRead(st, bytesThrough(st.got, id + 1) - st.pos,
                               bytesThrough(st.got, tableSegmentCount(st.got)) - st.pos)
      ELSE st

\* ---------------------------------------------------------------------------
\* Framing as a state machine: a message is built, written as a flat array or
\* through an output stream, and parsed back from the array or from an input
\* stream.  fr holds the written bytes, the input stream (lazy, pos, got,
\* overran) and the segments the reader has (mem) once they are all there.

\* number of builder operations on a message that is then framed
MaxFrameOps == 3

InitFraming == InitBuilder

\* the message is built with the StructBuilder operations
FramingBuild ==
    /\ bd.n < MaxFrameOps
    /\ InitRoot \/ InitStructField \/ InitListField \/ SetTextField \/ SetDataField

\* the message has a root and has not been written yet
CanFrame == bd.pc = "on" /\ bd.root /\ fr = Off

Framed(bytes) ==
    /\ fr' = [pc |-> "written", bytes |-> bytes, lazy |-> FALSE, pos |-> 0, got |-> <<>>,
              overran |-> FALSE, mem |-> <<>>]
    /\ bd' = [bd EXCEPT !.pc = "framed"]
    /\ UNCHANGED <<pk, rd>>

\* messageToFlatArray(builder)
MessageToFlatArray ==
    /\ CanFrame
    /\ Framed(messageToFlatArray(getSegmentsForOutput(bd.A)))

\* writeMessage(output, builder) into a TestOutputStream
WriteMessage ==
    /\ CanFrame
    /\ Framed(writeMessage(getSegmentsForOutput(bd.A)))

\* FlatArrayMessageReader reader(serialized)
ReadFlatArray ==
    /\ fr.pc = "written"
    /\ fr' = [fr EXCEPT !.pc = "parsed", !.mem = FlatArrayMessageReader(fr.bytes)]
    /\ UNCHANGED <<pk, rd, bd>>

\* the reader of an input stream has every segment once the stream is read
\* to the end of the last one
StreamRead(st) ==
    /\ fr' = IF st.pos >= bytesThrough(st.got, tableSegmentCount(st.got))
               THEN [st EXCEPT !.pc = "parsed", !.mem = parseSegments(st.got)]
               ELSE [st EXCEPT !.pc = "reading"]
    /\ UNCHANGED <<pk, rd, bd>>

\* TestInputStream stream(serialized, lazy); InputStreamMessageReader reader(stream)
ReadInputStream ==
    /\ fr.pc = "written"
    /\ \E lazy \in BOOLEAN :
         \E st \in {InputStreamMessageReader([fr EXCEPT !.lazy = lazy])} : StreamRead(st)

\* the reader is asked for a segment that may not have been read yet
GetSegment ==
    /\ fr.pc = "reading"
    /\ \E id \in 0..(tableSegmentCount(fr.got) - 1) :
         /\ fr.pos < bytesThrough(fr.got, id + 1)
         /\ \E st \in {streamGetSegment(fr, id)} : StreamRead(st)

NextFraming ==
    \/ FramingBuild
    \/ MessageToFlatArray \/ WriteMessage
    \/ ReadFlatArray \/ ReadInputStream \/ GetSegment

SpecFraming == InitFraming /\ [][NextFraming]_vars

\* ---------------------------------------------------------------------------
\* Properties of the framing

\* what a reader finds behind the pointer at ref, field by field: the data
\* words of a struct and what its pointers hold, the elements of a list
RECURSIVE ContentOfStruct(_, _, _), ContentAt(_, _, _, _)
ContentOfStruct(mem, r, d) ==
    <<"struct",
      [j \in 1..(r.dataSize \div BITS_PER_WORD) |-> WordOf(mem, r.segment, r.data + j - 1)],
      [i \in 1..r.pointerCount |->
          ContentAt(mem, r.segment, Ref(r.segment, r.pointers + i - 1), d - 1)]>>

ContentAt(mem, segment, ref, d) ==
    IF d = 0 THEN <<"deep">>
    ELSE LET o == readObjectPointer(mem, ReadingContext(1048576), segment, ref, d).r
         IN  IF o.type = "null" THEN <<"null">>
             ELSE IF o.type = "struct" THEN ContentOfStruct(mem, o, d)
             ELSE IF o.step % BITS_PER_WORD = 0
               THEN <<"list", [i \in 1..o.elementCount |->
                                 ContentOfStruct(mem, getStructElement(o, i - 1), d)]>>
             ELSE <<"list", o.step,
                    [i \in 1..roundUpToBytes(o.elementCount * o.step) |->
                        ByteAt(mem, o.segment, o.ptr, i - 1)]>>

\* what a reader of the message with segments mem finds from the root
MessageContent(mem) == ContentAt(mem, 0, RootRef, MaxOps + 2)

\* C2: a built message that was written as a flat array or through an output
\* stream and parsed back, from the array or from an input stream that hands
\* out the most or the least it may, reads field by field as the built message
\* does.
C2_FramingRoundTrip ==
    fr # Off /\ fr.pc = "parsed" =>
        /\ ~fr.overran
        /\ Len(fr.mem) = Len(bd.A.segs)
        /\ MessageContent(fr.mem) = MessageContent(SegmentsOf(bd.A))

\* a message of three segments with a text in its root struct came back whole
\* through a lazy input stream
C2_Witness ==
    /\ fr # Off /\ fr.pc = "parsed" /\ fr.lazy
    /\ Len(fr.mem) = 3
    /\ fr.pos = Len(fr.bytes)
    /\ \E i \in 1..Len(MessageContent(fr.mem)[3]) :
          /\ MessageContent(fr.mem)[3][i][1] = "list"
          /\ Len(MessageContent(fr.mem)[3][i]) = 3

\* what read(dst, n, n) gives when the inner stream hands out the whole input
\* as one read buffer
WholeBufferRead(n) == PackedRead(pk.stream, Len(pk.stream) + 1, 0, n, n)

\* the positions of the input at which the inner stream's read buffers end
SplitPoints == {i \in 1..(Len(pk.stream) - 1) : i % pk.C = 0}

\* C12 (as stated): for a given packed input and request, read produces the
\* same bytes whatever the size of the read buffers the inner stream hands out.
C12_SameBytesForEverySplit ==
    (pk.pc = "read" /\ ~pk.err) =>
        \A C \in SplitSizes :
            LET r == PackedRead(pk.stream, C, 0, pk.min, pk.max)
            IN  ~r.err => r.out = pk.dst

\* C12 (amended): when read reports no error, the bytes it produced are at
\* least minBytes and at most maxBytes, and they and the input position it
\* leaves are those of reading that many bytes from a single read buffer, so
\* that no input byte is processed twice or skipped after a refill; with
\* minBytes = maxBytes the bytes, the return value and the error are the same
\* for every split.
C12_SplitsAgree ==
    pk.pc = "read" =>
        /\ ~pk.err =>
              /\ pk.ret = Len(pk.dst)
              /\ pk.min <= pk.ret /\ pk.ret <= pk.max
              /\ ~WholeBufferRead(pk.ret).err
              /\ WholeBufferRead(pk.ret).out = pk.dst
              /\ WholeBufferRead(pk.ret).ipos = pk.ipos
        /\ pk.min = pk.max =>
              \A C \in SplitSizes :
                  LET r == PackedRead(pk.stream, C, 0, pk.min, pk.max)
                  IN  r.out = pk.dst /\ r.ret = pk.ret /\ r.err = pk.err

\* a verbatim run read whole through read buffers that end directly after the
\* tag byte, before the count byte and inside the run
C12_Witness ==
    /\ pk.pc = "read" /\ ~pk.err /\ pk.min = pk.max /\ pk.ret = 2 * BYTES_PER_WORD
    /\ pk.stream[1] = 255 /\ pk.stream[10] = 1
    /\ {1, 9, 12} \subseteq SplitPoints


\* the number of bytes a tag byte announces for its word
TagBytes(tag) == Cardinality({i \in 0..7 : Bit(tag, i) = 1})

\* the packed format read word by word from input position i with n bytes of
\* the request filled: the first run, if any, whose count byte announces more
\* bytes than the request has left.  n is then the bytes due before the run
\* (the run's leading word included) and i the position after its count byte.
RECURSIVE FirstOverrun(_, _, _, _)
FirstOverrun(s, i, n, maxBytes) ==
    IF n >= maxBytes \/ i >= Len(s) THEN [over |-> FALSE, n |-> n, i |-> i]
    ELSE LET tag == s[i + 1]
             i1 == i + 1 + TagBytes(tag)
             n1 == n + BYTES_PER_WORD
             run == s[i1 + 1] * BYTES_PER_WORD
         IN  IF i1 > Len(s) THEN [over |-> FALSE, n |-> n, i |-> i]
             ELSE IF tag # 0 /\ tag # 255 THEN FirstOverrun(s, i1, n1, maxBytes)
             ELSE IF i1 >= Len(s) THEN [over |-> FALSE, n |-> n1, i |-> i1]
             ELSE IF run > maxBytes - n1 THEN [over |-> TRUE, n |-> n1, i |-> i1 + 1]
             ELSE IF tag = 0 THEN FirstOverrun(s, i1 + 1, n1 + run, maxBytes)
             ELSE IF i1 + 1 + run > Len(s) THEN [over |-> FALSE, n |-> n1, i |-> i1 + 1]
             ELSE FirstOverrun(s, i1 + 1 + run, n1 + run, maxBytes)

Overrun == FirstOverrun(pk.stream, 0, 0, pk.max)

\* C13: read never writes past dst + maxBytes and returns at most maxBytes; a
\* run whose count byte announces more bytes than the request has left is
\* refused with a validation error and no byte of it written, unless read
\* returned with its minimum before reaching the run.
C13_RunOverrunsRequest ==
    pk.pc = "read" =>
        /\ Len(pk.dst) <= pk.max /\ pk.ret <= pk.max
        /\ Overrun.over =>
             \/ ~pk.err /\ pk.ret = Len(pk.dst) /\ pk.min <= pk.ret /\ pk.ret < Overrun.n
             \/ /\ pk.err
                /\ Len(pk.dst) = Overrun.n
                /\ pk.dst = WholeBufferRead(Overrun.n).out
                /\ \A k \in 1..Len(pk.dst) : pk.dst[k] # Unwritten
                /\ pk.ret = Max(pk.min, Overrun.n)
        /\ (Overrun.over /\ pk.min = pk.max) => pk.err

\* a verbatim run of seven words met with one word of the request left,
\* through read buffers that split the run's leading word
C13_Witness ==
    /\ pk.pc = "read" /\ Overrun.over /\ pk.err
    /\ pk.stream[1] = 255 /\ pk.stream[10] = 7
    /\ pk.max = 2 * BYTES_PER_WORD /\ pk.C = 7
    /\ Len(pk.dst) = BYTES_PER_WORD /\ pk.ret = pk.min


\* the whole packed input was read, without error, and packed again
Repacked == pk.pc = "packed" /\ pk.ipos = Len(pk.stream)

\* C14 (as stated): a packed input the decoder accepts without error is
\* reproduced byte for byte by unpacking it and packing the result.
C14_RepackReproduces == Repacked => pk.packed = pk.stream

\* C14 (amended): a packed input that is the packer's output for some message
\* is reproduced byte for byte by unpacking it and packing the result,
\* whatever the output buffer size; an accepted input the packer would not
\* have written is repacked to the packer's encoding of the same words.
C14_RepackOfPackerOutput ==
    Repacked =>
        /\ pk.from = "packer" => pk.packed = pk.stream
        /\ pk.packed = PackedWrite(pk.dst, 64)
        /\ PackedRead(pk.packed, 64, 0, pk.max, pk.max).out = pk.dst

\* a message of a zero word, a sparse word and a dense word packed, unpacked
\* through seven-byte read buffers and packed again
C14_Witness ==
    /\ Repacked /\ pk.from = "packer" /\ pk.C = 7 /\ Len(pk.dst) = 3 * BYTES_PER_WORD
    /\ Len(pk.stream) > 12
    /\ pk.stream[1] = 0 /\ pk.stream[2] = 0 /\ pk.stream[3] \notin {0, 255}
    /\ pk.stream[Len(pk.stream)] = 0 /\ pk.stream[Len(pk.stream) - 9] = 255
    /\ pk.packed = pk.stream


\* the example input has been packed
ExamplePacked == pk.pc # "start" /\ pk.src = PackingExample

\* C15 (as stated): the packed example begins 00 ff, goes on with tag 0 and
\* count 44, then ff ff 0a and 10 verbatim words, and ends 22 11 22.
C15_ExampleAsStated ==
    ExamplePacked =>
        /\ SubSeq(pk.stream, 1, 4) = <<0, 255, 0, 44>>
        /\ SubSeq(pk.stream, 5, 7) = <<255, 255, 10>>
        /\ SubSeq(pk.stream, 8, 87) = Repeat(255, 80)
        /\ SubSeq(pk.stream, Len(pk.stream) - 2, Len(pk.stream)) = <<34, 17, 34>>

\* C15 (amended): the packed example is 00 ff (a zero word and 255 more),
\* 00 2b (a zero word and 43 more), ff, the first 0xff word, 09, the other nine
\* 0xff words verbatim, and 0a 11 22 for the last word; it unpacks to the
\* input.
C15_ExampleBytes ==
    ExamplePacked =>
        /\ pk.stream = <<0, 255, 0, 43, 255>> \o Repeat(255, 8) \o <<9>>
                         \o Repeat(255, 72) \o <<10, 17, 34>>
        /\ pk.pc = "read" => (~pk.err /\ pk.dst = pk.src)

\* the example packed through a ten-byte write buffer and read back through
\* seven-byte read buffers
C15_Witness ==
    /\ ExamplePacked /\ pk.pc = "read" /\ pk.B = 10 /\ pk.C = 7
    /\ Len(pk.stream) = 89 /\ Len(pk.dst) = 311 * BYTES_PER_WORD

\* ---------------------------------------------------------------------------
\* Schema defaults: a default value is a read-only array of words D whose
\* first word is a pointer to the default object; addresses in D count from 0

\* memcpy(dst, src, n words) from the default into segment seg
CopyFromDefault(A, seg, dst, D, src, n) ==
    [A EXCEPT !.segs[seg + 1].words =
        [i \in 1..Len(@) |-> IF i > dst /\ i <= dst + n THEN D[src + (i - dst)] ELSE @[i]]]

RECURSIVE copyMessage(_, _, _, _, _)
RECURSIVE copyPointers(_, _, _, _, _, _)
RECURSIVE copyElements(_, _, _, _, _, _, _, _)

\* the loops of copyStruct and of copyMessage over count pointers: each with
\* subSegment = segment and dstRef = dstRefs + i
copyPointers(A, segment, dstFirst, D, srcFirst, count) ==
    IF count = 0 THEN A
    ELSE CHOOSE res \in
           {copyPointers(x, segment, dstFirst + 1, D, srcFirst + 1, count - 1) :
              x \in {copyMessage(A, segment, Ref(segment, dstFirst), D, srcFirst).A}} : TRUE

\* a copyStruct that copies the data section only
copyStructDataOnly(A, segment, dst, D, src, ds, pc) ==
    CopyFromDefault(A, segment, dst, D, src, ds)

\* WireHelpers::copyStruct: the data section, then each pointer
copyStruct(A, segment, dst, D, src, ds, pc) ==
    copyPointers(CopyFromDefault(A, segment, dst, D, src, ds), segment, dst + ds, D, src + ds, pc)

\* copyMessage, INLINE_COMPOSITE: the loop over the n elements
copyElements(A, segment, dst, D, src, ds, pc, n) ==
    IF n = 0 THEN A
    ELSE CHOOSE res \in
           {copyElements(x, segment, dst + ds + pc, D, src + ds + pc, ds, pc, n - 1) :
              x \in {copyStruct(A, segment, dst, D, src, ds, pc)}} : TRUE

\* what copyMessage leaves: the arena, dst and segment as allocate updated them
\* through the reference parameters, and the address of the copy
Copied(A, al) == [A |-> A, ref |-> al.ref, segment |-> al.segment, ptr |-> al.ptr]

\* copyMessage, case STRUCT, once the copy's words are allocated
copyStructTo(al, D, src, sw) ==
    CHOOSE res \in
      {Copied(SetWord(x, al.ref.s, al.ref.a,
                      structRefSet(GetWord(x, al.ref.s, al.ref.a), dataSize(sw), ptrCount(sw))),
              al) :
         x \in {copyStruct(al.A, al.segment, al.ptr, D, Target(src, sw), dataSize(sw),
                           ptrCount(sw))}} : TRUE

\* copyMessage, case LIST of VOID .. EIGHT_BYTES
copyDataListTo(al, D, src, sw, wordCount) ==
    CHOOSE res \in
      {Copied(SetWord(x, al.ref.s, al.ref.a,
                      listRefSet(GetWord(x, al.ref.s, al.ref.a), elementSize(sw),
                                 elementCount(sw))),
              al) :
         x \in {CopyFromDefault(al.A, al.segment, al.ptr, D, Target(src, sw), wordCount)}} : TRUE

\* copyMessage, case LIST of POINTER
copyPointerListTo(al, D, src, sw) ==
    CHOOSE res \in
      {Copied(SetWord(x, al.ref.s, al.ref.a,
                      listRefSet(GetWord(x, al.ref.s, al.ref.a), POINTER, elementCount(sw))),
              al) :
         x \in {copyPointers(al.A, al.segment, al.ptr, D, Target(src, sw),
                             elementCount(sw))}} : TRUE

\* copyMessage, case LIST of INLINE_COMPOSITE: setInlineComposite, the tag,
\* then the elements
copyStructListTo(al, D, src, sw) ==
    LET srcPtr == Target(src, sw)
        srcTag == D[srcPtr + 1]
        sized == SetWord(al.A, al.ref.s, al.ref.a,
                         listRefSet(GetWord(al.A, al.ref.s, al.ref.a), INLINE_COMPOSITE,
                                    inlineCompositeWordCount(sw)))
        tagged == SetWord(sized, al.segment, al.ptr, srcTag)
    IN  Copied(copyElements(tagged, al.segment, al.ptr + POINTER_SIZE_IN_WORDS, D,
                            srcPtr + POINTER_SIZE_IN_WORDS, dataSize(srcTag), ptrCount(srcTag),
                            inlineCompositeListElementCount(srcTag)),
               al)

\* WireHelpers::copyMessage(segment, dst, src): the object behind word src of
\* the default D is copied into the arena and dst made to point to the copy
copyMessage(A, segment, dst, D, src) ==
    LET sw == D[src + 1]
    IN  IF Kind(sw) = STRUCT
          THEN IF isNull(sw)
                 THEN [A |-> SetWord(A, dst.s, dst.a, ZeroWord), ref |-> dst,
                       segment |-> segment, ptr |-> 0]
                 ELSE CHOOSE res \in
                        {copyStructTo(al, D, src, sw) :
                           al \in {allocate(A, dst, segment, wordSize(sw), STRUCT)}} : TRUE
        ELSE IF Kind(sw) = LIST
          THEN IF elementSize(sw) = POINTER
                 THEN CHOOSE res \in
                        {copyPointerListTo(al, D, src, sw) :
                           al \in {allocate(A, dst, segment, elementCount(sw), LIST)}} : TRUE
               ELSE IF elementSize(sw) = INLINE_COMPOSITE
                 THEN CHOOSE res \in
                        {copyStructListTo(al, D, src, sw) :
                           al \in {allocate(A, dst, segment,
                                            inlineCompositeWordCount(sw) + POINTER_SIZE_IN_WORDS,
                                            LIST)}} : TRUE
               ELSE CHOOSE res \in
                      {copyDataListTo(al, D, src, sw, n) :
                         n \in {roundUpBitsToWords(elementCount(sw)
                                                     * dataBitsPerElement(elementSize(sw)))},
                         al \in {allocate(A, dst, segment,
                                          roundUpBitsToWords(
                                              elementCount(sw)
                                                * dataBitsPerElement(elementSize(sw))),
                                          LIST)}} : TRUE
        ELSE \* FAIL_PRECOND("Copy source message contained unexpected kind.")
             [A |-> A, ref |-> dst, segment |-> segment, ptr |-> 0]

\* no default value (nullptr)
NoDefault == <<>>

\* defaultValue == nullptr || defaultValue->isNull()
DefaultIsNull(D) == D = NoDefault \/ isNull(D[1])

\* getWritableStructPointer from useDefault on: without a default the struct
\* is initialised; otherwise the default is copied (defaultValue = nullptr from
\* here on) and the pointer read as one that was there before, ref and segment
\* being what copyMessage left in them
useDefaultStructBuilder(A, ref, segment, size, D) ==
    IF DefaultIsNull(D) THEN initStructPointer(A, ref, segment, size)
    ELSE CHOOSE res \in UNION
           {{getExistingStruct(cp.A, cp.ref, cp.segment, size, old,
                               GetWord(cp.A, old.ref.s, old.ref.a)) :
               old \in {followFarsBuilder(cp.A, cp.ref, cp.segment)}} :
              cp \in {copyMessage(A, segment, ref, D, 0)}} : TRUE

\* WireHelpers::getWritableStructPointer(ref, segment, size, defaultValue)
getWritableStructPointerDefault(A, ref, segment, size, D) ==
    IF isNull(GetWord(A, ref.s, ref.a)) THEN useDefaultStructBuilder(A, ref, segment, size, D)
    ELSE CHOOSE res \in
           {IF Kind(GetWord(A, old.ref.s, old.ref.a)) # STRUCT
              THEN useDefaultStructBuilder(A, ref, segment, size, D)
              ELSE getExistingStruct(A, ref, segment, size, old,
                                     GetWord(A, old.ref.s, old.ref.a)) :
              old \in {followFarsBuilder(A, ref, segment)}} : TRUE

\* readStructPointer from useDefault on: the reader of the default, which is
\* an unchecked message (segment == nullptr: no far pointers, no bounds check)
useDefaultStruct(c, D, nestingLimit) ==
    IF DefaultIsNull(D) THEN [r |-> DefaultStructReader, c |-> c]
    ELSE IF ~(nestingLimit > 0) THEN [r |-> DefaultStructReader, c |-> Report(c)]
    ELSE IF Kind(D[1]) # STRUCT THEN [r |-> DefaultStructReader, c |-> Report(c)]
    ELSE [r |-> StructReader(NoSegment, Target(0, D[1]), Target(0, D[1]) + dataSize(D[1]),
                             dataSize(D[1]) * BITS_PER_WORD, ptrCount(D[1]), nestingLimit - 1),
          c |-> c]

\* WireHelpers::readStructPointer(segment, ref, defaultValue, nestingLimit)
readStructPointerDefault(mem, c, segment, ref, D, nestingLimit) ==
    IF isNull(WordOf(mem, ref.s, ref.a)) THEN useDefaultStruct(c, D, nestingLimit)
    ELSE CHOOSE res \in
           {IF r.r = DefaultStructReader THEN useDefaultStruct(r.c, D, nestingLimit) ELSE r :
              r \in {readStructPointer(mem, c, segment, ref, nestingLimit)}} : TRUE


\* ---------------------------------------------------------------------------
\* Struct fields with schema defaults as a state machine

MaxDefaultOps == 3

\* a second data word of the defaults
OtherValue == <<9, 0, 0, 0, 0, 0, 0, 1>>

\* the defaults the schema gives struct fields: a struct of one data word; a
\* struct with a struct in it; one with a text; one with a list of pointers,
\* the first null; one with a list of two structs; and a field with no default
DefaultBlobs ==
    { <<StructPtr(0, 1, 0), DataValue>>,
      <<StructPtr(0, 1, 1), DataValue, StructPtr(0, 1, 0), OtherValue>>,
      <<StructPtr(0, 0, 1), ListPtr(0, BYTE, 3), <<97, 98, 0, 0, 0, 0, 0, 0>> >>,
      <<StructPtr(0, 0, 1), ListPtr(0, POINTER, 2), ZeroWord, StructPtr(0, 1, 0), OtherValue>>,
      <<StructPtr(0, 1, 1), DataValue, ListPtr(0, INLINE_COMPOSITE, 2), StructPtr(2, 1, 0),
        OtherValue, DataValue>>,
      NoDefault }

InitDefault ==
    /\ \E S \in SegmentSizes, D \in DefaultBlobs :
         bd = [pc |-> "on", A |-> [segs |-> <<>>, S |-> S], pre |-> [segs |-> <<>>, S |-> S],
               root |-> FALSE, cur |-> NoBuilder, lst |-> NoBuilder, n |-> 0,
               op |-> "none", slot |-> RootRef, arg |-> <<>>, res |-> NoBuilder, D |-> D]
    /\ pk = Off /\ rd = Off /\ fr = Off

CanDefault == bd.pc = "on" /\ bd.n < MaxDefaultOps

\* StructBuilder::getStructField(i, size, defaultValue); the caller keeps the
\* builder of the parent
GetStructFieldDefault ==
    /\ CanDefault
    /\ \E i \in FieldIndexes, size \in StructSizes :
         \E out \in {getWritableStructPointerDefault(bd.A, FieldRef(i), bd.cur.segment, size,
                                                     bd.D)} :
            Built("getStructDefault", FieldRef(i), size, bd.A, out.A, bd.cur, NoBuilder, out.b)

\* StructReader::getStructField(i, defaultValue) on the reader of the parent
\* (StructBuilder::asReader), with nesting limit NestingLimit
ReadStructFieldDefault ==
    /\ CanDefault
    /\ \E i \in FieldIndexes :
         \E out \in {readStructPointerDefault(SegmentsOf(bd.A), ReadingContext(1048576),
                                              bd.cur.segment, FieldRef(i), bd.D,
                                              NestingLimit)} :
            Built("readStructDefault", FieldRef(i), out.c.errs, bd.A, bd.A, bd.cur, NoBuilder,
                  out.r)

NextDefault ==
    \/ CanDefault /\ InitRoot
    \/ CanDefault /\ InitStructField
    \/ GetStructFieldDefault
    \/ ReadStructFieldDefault

SpecDefault == InitDefault /\ [][NextDefault]_vars


\* ---------------------------------------------------------------------------
\* Properties of schema defaults

\* the contents of the default: what a reader finds behind its first word
DefaultContent == ContentAt(<<bd.D>>, 0, Ref(0, 0), MaxDepth + 1)

\* the StructReader of a StructBuilder (asReader)
AsReader(b) ==
    StructReader(b.segment, b.data, b.pointers, b.dataSize * BITS_PER_WORD, b.pointerCount,
                 MaxDepth)

\* struct contents x and y agree field by field, a field past the end of a
\* section reading as zero or null
SameFields(x, y) ==
    /\ x[1] = "struct" /\ y[1] = "struct"
    /\ \A j \in 1..Max(Len(x[2]), Len(y[2])) :
          (IF j <= Len(x[2]) THEN x[2][j] ELSE ZeroWord)
            = (IF j <= Len(y[2]) THEN y[2][j] ELSE ZeroWord)
    /\ \A i \in 1..Max(Len(x[3]), Len(y[3])) :
          (IF i <= Len(x[3]) THEN x[3][i] ELSE <<"null">>)
            = (IF i <= Len(y[3]) THEN y[3][i] ELSE <<"null">>)

\* the slot held a null pointer and its field has a non-null default
NullWithDefault(A) == isNull(GetWord(A, bd.slot.s, bd.slot.a)) /\ ~DefaultIsNull(bd.D)

\* the default struct has room for every field of the requested size
DefaultFits == dataSize(bd.D[1]) >= bd.arg.data /\ ptrCount(bd.D[1]) >= bd.arg.pointers

\* C16: on a null pointer field with a non-null default, the struct a reader
\* gets reads as the default, and the struct a builder gets from
\* getWritableStruct reads as the default and lies in the message, whose slot
\* is no longer null and, the default being as large as the size asked for,
\* leads to that struct.
C16_DefaultContents ==
    /\ (bd.op = "readStructDefault" /\ NullWithDefault(bd.A)) =>
          /\ bd.arg = 0
          /\ bd.res.segment = NoSegment
          /\ SameFields(ContentOfStruct(<<bd.D>>, [bd.res EXCEPT !.segment = 0], MaxDepth),
                        DefaultContent)
    /\ (bd.op = "getStructDefault" /\ NullWithDefault(bd.pre)) =>
          /\ ~isNull(GetWord(bd.A, bd.slot.s, bd.slot.a))
          /\ bd.res.segment # NoSegment
          /\ bd.res.dataSize >= bd.arg.data /\ bd.res.pointerCount >= bd.arg.pointers
          /\ SameFields(ContentOfStruct(SegmentsOf(bd.A), AsReader(bd.res), MaxDepth),
                        DefaultContent)
          /\ DefaultFits =>
                /\ Resolved(bd.A, bd.slot, bd.slot.s).ptr = bd.res.data
                /\ SameFields(ContentAt(SegmentsOf(bd.A), bd.slot.s, bd.slot, MaxDepth + 1),
                              DefaultContent)

\* a default with a list of two structs was copied for a builder, behind a far
\* pointer, into a message whose segments were full
C16_Witness ==
    /\ bd.op = "getStructDefault" /\ NullWithDefault(bd.pre) /\ DefaultFits
    /\ Len(bd.D) = 6
    /\ Kind(GetWord(bd.A, bd.slot.s, bd.slot.a)) = FAR
    /\ GetWord(bd.A, bd.res.segment, bd.res.data) = DataValue
    /\ SameFields(ContentOfStruct(SegmentsOf(bd.A), AsReader(bd.res), MaxDepth), DefaultContent)


\* ---------------------------------------------------------------------------
\* ReaderArena::tryGetSegment called by several threads.  No lock is taken,
\* so the threads interleave between its statements.  A SegmentReader is an
\* object of the heap: objs[h] records the segment it was made for, whether it
\* is still alive, and the map that owns it.  moreSegments is the identity of
\* the current SegmentMap (NoMap: nullptr) and map its entries.

Threads == {1, 2}

\* lookups each thread makes
MaxLookups == 2

\* the message has segments 0 .. SegmentCount - 1
SegmentCount == 2

\* the ids that are looked up: the segments and one id past them
LookupIds == 0..SegmentCount

NoMap == 0

\* a null SegmentReader pointer, and &segment0
NullReader == 0
Segment0 == -1

Idle == [pc |-> "idle", id |-> 0, slot |-> NoMap, n |-> 0]

InitArena ==
    /\ rd = [pc |-> "arena", moreSegments |-> NoMap, maps |-> 0, map |-> <<>>,
             objs |-> <<>>, th |-> [t \in Threads |-> Idle], held |-> {}, race |-> FALSE]
    /\ pk = Off /\ bd = Off /\ fr = Off

\* the SegmentReaders a destroyed map owned are destroyed with it
Destroyed(objs, m) ==
    [h \in 1..Len(objs) |-> IF objs[h].owner = m THEN [objs[h] EXCEPT !.alive = FALSE]
                            ELSE objs[h]]

\* tryGetSegment returns reader to thread t
Returned(t, reader) ==
    rd' = [rd EXCEPT !.th[t] = [Idle EXCEPT !.n = rd.th[t].n + 1],
                     !.held = @ \cup {<<t, rd.th[t].id, reader>>} ]

\* tryGetSegment(id) is called; if (id == SegmentId(0)) return &segment0
Call(t) ==
    /\ rd.pc = "arena" /\ rd.th[t].pc = "idle" /\ rd.th[t].n < MaxLookups
    /\ \E id \in LookupIds :
         rd' = IF id = 0
                 THEN [rd EXCEPT !.th[t].n = @ + 1, !.held = @ \cup {<<t, 0, Segment0>>}]
                 ELSE [rd EXCEPT !.th[t].pc = "find", !.th[t].id = id]
    /\ UNCHANGED <<pk, bd, fr>>

\* if (moreSegments != nullptr) { iter = find(id); if found return
\* iter->second.get(); }
Find(t) ==
    /\ rd.pc = "arena" /\ rd.th[t].pc = "find"
    /\ IF rd.moreSegments # NoMap /\ rd.th[t].id \in DOMAIN rd.map
         THEN Returned(t, rd.map[rd.th[t].id])
         ELSE rd' = [rd EXCEPT !.th[t].pc = "getSegment"]
    /\ UNCHANGED <<pk, bd, fr>>

\* newSegment = message->getSegment(id); if (newSegment == nullptr) return nullptr
GetSegmentOfMessage(t) ==
    /\ rd.pc = "arena" /\ rd.th[t].pc = "getSegment"
    /\ IF rd.th[t].id >= SegmentCount
         THEN Returned(t, NullReader)
         ELSE rd' = [rd EXCEPT !.th[t].pc = "checkMap"]
    /\ UNCHANGED <<pk, bd, fr>>

\* if (moreSegments == nullptr)
CheckMap(t) ==
    /\ rd.pc = "arena" /\ rd.th[t].pc = "checkMap"
    /\ rd' = [rd EXCEPT !.th[t].pc = IF rd.moreSegments = NoMap THEN "newMap" ELSE "slot"]
    /\ UNCHANGED <<pk, bd, fr>>

\* moreSegments = std::unique_ptr<SegmentMap>(new SegmentMap): the map that
\* was there, if another thread stored one meanwhile, is destroyed
NewMap(t) ==
    /\ rd.pc = "arena" /\ rd.th[t].pc = "newMap"
    /\ rd' = [rd EXCEPT !.th[t].pc = "slot", !.maps = @ + 1, !.moreSegments = rd.maps + 1,
                        !.map = <<>>, !.objs = Destroyed(@, rd.moreSegments)]
    /\ UNCHANGED <<pk, bd, fr>>

\* slot = &(*moreSegments)[id]: the entry is made, empty, if it is not there
Slot(t) ==
    /\ rd.pc = "arena" /\ rd.th[t].pc = "slot"
    /\ rd' = [rd EXCEPT !.th[t].pc = "store", !.th[t].slot = rd.moreSegments,
                        !.map = IF rd.th[t].id \in DOMAIN @ THEN @
                                ELSE [k \in DOMAIN @ \cup {rd.th[t].id} |->
                                        IF k \in DOMAIN @ THEN @[k] ELSE NullReader]]
    /\ UNCHANGED <<pk, bd, fr>>

\* *slot = std::unique_ptr<SegmentReader>(new SegmentReader(...)); return
\* slot->get().  The reader the slot held is destroyed.  If the slot's map was
\* destroyed meanwhile the store goes to freed memory: the new reader is owned
\* by no live map and the race is recorded.
Store(t) ==
    /\ rd.pc = "arena" /\ rd.th[t].pc = "store"
    /\ LET id == rd.th[t].id
           h == Len(rd.objs) + 1
           live == rd.th[t].slot = rd.moreSegments
           old == IF live THEN rd.map[id] ELSE NullReader
           made == Append(rd.objs, [id |-> id, alive |-> live, owner |-> rd.th[t].slot])
           heap == [k \in 1..h |-> IF k = old THEN [made[k] EXCEPT !.alive = FALSE]
                                   ELSE made[k]]
       IN  rd' = [rd EXCEPT !.th[t] = [Idle EXCEPT !.n = rd.th[t].n + 1],
                            !.held = @ \cup {<<t, id, h>>},
                            !.objs = heap,
                            !.map = IF live THEN [@ EXCEPT ![id] = h] ELSE @,
                            !.race = @ \/ ~live]
    /\ UNCHANGED <<pk, bd, fr>>

NextArena ==
    \E t \in Threads :
        Call(t) \/ Find(t) \/ GetSegmentOfMessage(t) \/ CheckMap(t) \/ NewMap(t) \/ Slot(t)
          \/ Store(t)

SpecArena == InitArena /\ [][NextArena]_vars

\* C17: every SegmentReader tryGetSegment(id) returned to a thread is still
\* alive and is the reader of segment id, a null pointer being returned only
\* for an id the message has no segment for.
C17_SegmentReadersStayValid ==
    rd.pc = "arena" =>
        \A q \in rd.held :
            IF q[2] = 0 THEN q[3] = Segment0
            ELSE IF q[2] >= SegmentCount THEN q[3] = NullReader
            ELSE q[3] # NullReader /\ rd.objs[q[3]].alive /\ rd.objs[q[3]].id = q[2]


\* ---------------------------------------------------------------------------
\* Properties of getWritableStruct, allocate and transferPointer

\* the last operation was getWritableStruct on a slot that led to a struct
\* with at least the data words and the pointers asked for
GotInPlace ==
    /\ bd.pc = "on" /\ bd.op = "getStruct"
    /\ ~isNull(GetWord(bd.pre, bd.slot.s, bd.slot.a))
    /\ Kind(GetWord(bd.pre, OldStruct.ref.s, OldStruct.ref.a)) = STRUCT
    /\ dataSize(GetWord(bd.pre, OldStruct.ref.s, OldStruct.ref.a)) >= bd.arg.data
    /\ ptrCount(GetWord(bd.pre, OldStruct.ref.s, OldStruct.ref.a)) >= bd.arg.pointers

\* C18: getWritableStruct on a slot whose struct has at least the sizes asked
\* for returns a builder over the struct's own words, with the struct's sizes,
\* and changes no word and no allocation position of any segment.
C18_InPlaceFrame ==
    GotInPlace =>
        LET ow == GetWord(bd.pre, OldStruct.ref.s, OldStruct.ref.a)
        IN  /\ bd.A = bd.pre
            /\ bd.res = StructBuilder(OldStruct.segment, OldStruct.ptr,
                                      OldStruct.ptr + dataSize(ow), dataSize(ow), ptrCount(ow))

\* a struct of one data word and two pointers, behind a far pointer, was
\* asked for with one pointer and no data
C18_Witness ==
    /\ GotInPlace
    /\ Kind(GetWord(bd.pre, bd.slot.s, bd.slot.a)) = FAR
    /\ bd.arg.data = 0 /\ bd.arg.pointers = 1
    /\ bd.res.dataSize = 1 /\ bd.res.pointerCount = 2
    /\ bd.A = bd.pre


\* the last operation was initStruct on a slot whose segment had fewer free
\* words than the struct needs: allocate(ref, segment, n, STRUCT) fell back on
\* another segment
AllocatedWords == bd.arg.data + bd.arg.pointers

FarAllocated ==
    /\ bd.pc = "on" /\ bd.op = "initStruct"
    /\ available(bd.pre.segs[bd.slot.s + 1]) < AllocatedWords

\* the landing pad the slot names after the operation
PadSegment == getSegment(segmentId(GetWord(bd.A, bd.slot.s, bd.slot.a)))
PadPosition == farPositionInSegment(GetWord(bd.A, bd.slot.s, bd.slot.a))

\* what allocate's fallback leaves, but for the other words of the segment of
\* the slot: the slot is a single far pointer to the first of n + 1 words
\* taken from a segment that had them free, that word is a pointer of the
\* kind asked for with offset zero, and the n zero words after it are returned
FarFallback ==
    /\ Kind(GetWord(bd.A, bd.slot.s, bd.slot.a)) = FAR
    /\ ~isDoubleFar(GetWord(bd.A, bd.slot.s, bd.slot.a))
    /\ PadSegment # bd.slot.s
    /\ PadSegment < Len(bd.A.segs)
    /\ IF PadSegment < Len(bd.pre.segs)
         THEN /\ available(bd.pre.segs[PadSegment + 1]) >= AllocatedWords + 1
              /\ PadPosition = bd.pre.segs[PadSegment + 1].pos
         ELSE /\ PadSegment = Len(bd.pre.segs)
              /\ Len(bd.A.segs[PadSegment + 1].words) >= AllocatedWords + 1
              /\ PadPosition = 0
    /\ bd.A.segs[PadSegment + 1].pos = PadPosition + AllocatedWords + 1
    /\ Kind(GetWord(bd.A, PadSegment, PadPosition)) = STRUCT
    /\ OffsetField(GetWord(bd.A, PadSegment, PadPosition)) = 0
    /\ bd.res.segment = PadSegment /\ bd.res.data = PadPosition + 1
    /\ \A k \in 1..AllocatedWords : GetWord(bd.A, PadSegment, PadPosition + k) = ZeroWord
    /\ bd.A.segs[bd.slot.s + 1].pos = bd.pre.segs[bd.slot.s + 1].pos

OldList == followFarsBuilder(bd.pre, bd.slot, bd.slot.s)
OldListRef == GetWord(bd.pre, OldList.ref.s, OldList.ref.a)
OldListTag == GetWord(bd.pre, OldList.segment, OldList.ptr)

\* getWritableStructList moved the elements of a list to a new list
ListUpgraded ==
    /\ bd.pc = "on" /\ bd.op = "getStructList"
    /\ ~isNull(GetWord(bd.pre, bd.slot.s, bd.slot.a))
    /\ Kind(OldListRef) = LIST
    /\ bd.res.segment # NoSegment
    /\ bd.A # bd.pre

\* pointer i of element k of the new list
NewElementPointer(k, i) ==
    Ref(bd.res.segment,
        bd.res.ptr + k * (bd.res.step \div BITS_PER_WORD)
          + (bd.res.structDataSize \div BITS_PER_WORD) + i)

\* the pointers the last operation handed to transferPointer: src in the
\* arena before the operation, dst in the arena after it
TransferredPointers ==
    IF Upgraded
      THEN {[dst |-> Ref(bd.res.segment, bd.res.pointers + i),
             src |-> Ref(OldStruct.segment, OldStruct.ptr + dataSize(OldStructRef) + i)] :
              i \in 0..(ptrCount(OldStructRef) - 1)}
    ELSE IF ListUpgraded /\ elementSize(OldListRef) = INLINE_COMPOSITE
      THEN {[dst |-> NewElementPointer(q[1], q[2]),
             src |-> Ref(OldList.segment,
                         OldList.ptr + POINTER_SIZE_IN_WORDS + q[1] * wordSize(OldListTag)
                           + dataSize(OldListTag) + q[2])] :
              q \in (0..(inlineCompositeListElementCount(OldListTag) - 1))
                      \X (0..(ptrCount(OldListTag) - 1))}
    ELSE IF ListUpgraded /\ elementSize(OldListRef) = POINTER
      THEN {[dst |-> NewElementPointer(k, 0), src |-> Ref(OldList.segment, OldList.ptr + k)] :
              k \in 0..(elementCount(OldListRef) - 1)}
    ELSE {}

\* what followFars makes of the pointer at ref: the target's segment and
\* address and the kind and the size fields of the pointer that describes it
FarsFollowed(A, ref) ==
    LET f == followFarsBuilder(A, ref, ref.s)
        t == GetWord(A, f.ref.s, f.ref.a)
    IN  [segment |-> f.segment, ptr |-> f.ptr, kind |-> Kind(t), sizes |-> SubSeq(t, 5, 8)]

\* C20: after transferPointer(dst, src) with src not null, followFars on dst
\* gives the target address, the kind and the size fields that followFars on
\* src gave before.
C20_TransferKeepsTarget ==
    \A p \in TransferredPointers :
        ~isNull(GetWord(bd.pre, p.src.s, p.src.a)) =>
            /\ ~isNull(GetWord(bd.A, p.dst.s, p.dst.a))
            /\ FarsFollowed(bd.A, p.dst) = FarsFollowed(bd.pre, p.src)

\* a pointer of a list of pointers was moved into a struct list in another
\* segment and reaches its object, which stayed, through a double-far pointer
C20_Witness ==
    /\ ListUpgraded
    /\ \E p \in TransferredPointers :
         /\ Kind(GetWord(bd.pre, p.src.s, p.src.a)) \in {STRUCT, LIST}
         /\ p.dst.s # p.src.s
         /\ Kind(GetWord(bd.A, p.dst.s, p.dst.a)) = FAR
         /\ isDoubleFar(GetWord(bd.A, p.dst.s, p.dst.a))
         /\ FarsFollowed(bd.A, p.dst) = FarsFollowed(bd.pre, p.src)


\* ---------------------------------------------------------------------------
\* C21: where transferPointer puts the landing pad.

\* the transfers of the last operation that crossed segments: src held a
\* pointer that was neither null nor far, and dst lies in another segment
CrossSegmentTransfers ==
    {p \in TransferredPointers :
        /\ Kind(GetWord(bd.pre, p.src.s, p.src.a)) \in {STRUCT, LIST}
        /\ ~isNull(GetWord(bd.pre, p.src.s, p.src.a))
        /\ p.dst.s # p.src.s}

\* the far pointer a transfer left in dst, the segment of its landing pad and
\* the pad's position there
DstWord(p) == GetWord(bd.A, p.dst.s, p.dst.a)

PadSegmentOf(p) == getSegment(segmentId(DstWord(p)))

PadPositionOf(p) == farPositionInSegment(DstWord(p))

\* the segment did not exist before the call: it is past the segments of the
\* arena the operation started from, and the pad is the first thing in it
FreshForPad(p) == PadSegmentOf(p) >= Len(bd.pre.segs) /\ PadPositionOf(p) = 0

\* dst is a single far to a one-word pad inside the source's segment
SingleFarInSourceSegment(p) ==
    /\ Kind(DstWord(p)) = FAR /\ ~isDoubleFar(DstWord(p))
    /\ PadSegmentOf(p) = p.src.s
    /\ PadPositionOf(p) < bd.A.segs[p.src.s + 1].pos
    /\ PadPositionOf(p) >= bd.pre.segs[p.src.s + 1].pos

\* dst is a double far to a two-word pad outside the source's segment, which
\* has no word left
DoubleFarElsewhere(p) ==
    /\ Kind(DstWord(p)) = FAR /\ isDoubleFar(DstWord(p))
    /\ available(bd.A.segs[p.src.s + 1]) = 0
    /\ PadSegmentOf(p) # p.src.s
    /\ PadPositionOf(p) + 2 <= bd.A.segs[PadSegmentOf(p) + 1].pos

\* the claim as stated: a double far's pad is in a segment made by the call
C21_DoubleFarPadInFreshSegment ==
    \A p \in CrossSegmentTransfers :
        \/ SingleFarInSourceSegment(p)
        \/ DoubleFarElsewhere(p) /\ FreshForPad(p)


\* the pad of a double far lies in a segment getSegmentWithAvailable can give:
\* segment 0, the last segment there was, or one appended since
PadInSegmentWithAvailable(p) ==
    PadSegmentOf(p) = 0 \/ PadSegmentOf(p) >= Len(bd.pre.segs) - 1

\* C21: transferPointer across segments leaves in dst a single far to a
\* one-word pad in the target's segment, or, when that segment has no word
\* left, a double far to a two-word pad in another segment, which is segment 0
\* or the last segment when one of them has two words free and a new segment
\* otherwise.
C21_DoubleFarPad ==
    \A p \in CrossSegmentTransfers :
        \/ SingleFarInSourceSegment(p)
        \/ DoubleFarElsewhere(p) /\ PadInSegmentWithAvailable(p)

\* a double far whose pad went into a segment that was already in use
C21_Witness ==
    \E p \in CrossSegmentTransfers : DoubleFarElsewhere(p) /\ ~FreshForPad(p)


\* ---------------------------------------------------------------------------
\* Overwriting lists.  The builder after a caller built a root struct of one
\* data word and one pointer and, in that pointer field, a list with content:
\* a text, a list of pointers some of which hold a text, or a struct list
\* some of whose elements hold a data word and a text.  The caller then runs
\* the operations of the builder state machine, ZeroOps of them.

\* the operations that follow
ZeroOps == 2

RootSize == StructSize(1, 1, INLINE_COMPOSITE)

\* initRoot on a new message with segment size S
BuiltRoot(S) ==
    initStructPointer(WithRoot([segs |-> <<>>, S |-> S], FALSE), RootRef, 0, RootSize)

RECURSIVE setTextElements(_, _, _, _)
\* setBlobElement<Text> on the elements T of the pointer list l, from k on
setTextElements(A, l, T, k) ==
    IF k >= l.elementCount THEN A
    ELSE CHOOSE res \in
           {setTextElements(x, l, T, k + 1) :
              x \in {IF k \in T
                     THEN setTextPointer(A, Ref(l.segment, l.ptr + k), l.segment, <<97>>)
                     ELSE A}} : TRUE

RECURSIVE setElementData(_, _, _, _)
\* getStructElement(k).setDataField on the elements T of the struct list l
setElementData(A, l, T, k) ==
    IF k >= l.elementCount THEN A
    ELSE CHOOSE res \in
           {setElementData(x, l, T, k + 1) :
              x \in {IF k \in T
                     THEN SetWord(A, l.segment, getStructElementBuilder(l, k).data, DataValue)
                     ELSE A}} : TRUE

RECURSIVE setElementTexts(_, _, _, _)
\* getStructElement(k).setBlobField<Text>(0) on the elements T of the struct list l
setElementTexts(A, l, T, k) ==
    IF k >= l.elementCount THEN A
    ELSE CHOOSE res \in
           {setElementTexts(x, l, T, k + 1) :
              x \in {IF k \in T /\ l.structPointerCount > 0
                     THEN setTextPointer(A, Ref(l.segment, getStructElementBuilder(l, k).pointers),
                                         l.segment, <<97>>)
                     ELSE A}} : TRUE

\* the element subsets that get content
ElementSets == SUBSET (0..(ListCount - 1))

\* pointer field 0 of the root r
ListSlot(r) == Ref(r.b.segment, r.b.pointers)

\* the lists with content in pointer field 0 of the root r: the arena and the
\* ListBuilder the caller holds
TextList(r, v) ==
    [A |-> setTextPointer(r.A, ListSlot(r), r.b.segment, v), l |-> NoBuilder]

PointerList(r, T) ==
    CHOOSE res \in
      {[A |-> setTextElements(il.A, il.l, T, 0), l |-> il.l] :
         il \in {initListPointer(r.A, ListSlot(r), r.b.segment, ListCount, POINTER)}} : TRUE

StructList(r, size, T, U) ==
    CHOOSE res \in
      {[A |-> setElementTexts(setElementData(il.A, il.l, T, 0), il.l, U, 0), l |-> il.l] :
         il \in {initStructListPointer(r.A, ListSlot(r), r.b.segment, ListCount, size)}} : TRUE

\* what the caller built: which list, and the content put into it
ListChoices ==
    {[list |-> "text", v |-> v] : v \in TextValues}
      \cup {[list |-> "pointers", T |-> T] : T \in ElementSets}
      \cup {[list |-> "structs", size |-> size, T |-> T, U |-> U] :
              size \in StructListSizes, T \in ElementSets, U \in ElementSets}

BuiltList(r, c) ==
    IF c.list = "text" THEN TextList(r, c.v)
    ELSE IF c.list = "pointers" THEN PointerList(r, c.T)
    ELSE StructList(r, c.size, c.T, c.U)

InitZero ==
    /\ \E S \in SegmentSizes, c \in ListChoices :
       \E r \in {BuiltRoot(S)} :
       \E b \in {BuiltList(r, c)} :
         bd = [pc |-> "on", A |-> b.A, pre |-> b.A, root |-> TRUE, cur |-> r.b, lst |-> b.l,
               n |-> MaxOps - ZeroOps, op |-> "none", slot |-> RootRef, arg |-> <<>>,
               res |-> NoBuilder]
    /\ pk = Off /\ rd = Off /\ fr = Off

SpecZero == InitZero /\ [][NextBuilder]_vars

\* the last operation overwrote a pointer slot that referenced a list:
\* allocate called zeroObject on the slot
OverwroteList ==
    /\ bd.pc = "on"
    /\ bd.op \in {"initStruct", "initList", "initStructList", "setText"}
    /\ ~isNull(GetWord(bd.pre, bd.slot.s, bd.slot.a))
    /\ Kind(OldListRef) = LIST

\* the words of the list body: the data area, the pointer words, or the tag
\* and the elements
OldListBody == {<<OldList.segment, OldList.ptr + k>> : k \in 0..(ListBodyWords(OldListRef) - 1)}

\* C22: after zeroObject on a list pointer every word of the list body is
\* zero (the data area, every pointer word of a pointer list, the tag and all
\* the element words of an inline-composite list), and so is every word of
\* the objects the list's pointers referenced.
C22_ZeroedListBody ==
    OverwroteList =>
        /\ \A q \in OldListBody : GetWord(bd.A, q[1], q[2]) = ZeroWord
        /\ \A q \in ReachablePointer(bd.pre, bd.slot.s, bd.slot.a, MaxDepth) :
               GetWord(bd.A, q[1], q[2]) = ZeroWord


\* ---------------------------------------------------------------------------
\* C23: what an upgrade leaves in the old storage.

\* the words of the landing pad the slot of the last operation led through
\* before the operation: none, one, or two for a double far
OldPadWords ==
    LET w == GetWord(bd.pre, bd.slot.s, bd.slot.a)
    IN  IF Kind(w) # FAR THEN {}
        ELSE {<<getSegment(segmentId(w)), farPositionInSegment(w) + k>> :
                k \in 0..(IF isDoubleFar(w) THEN 1 ELSE 0)}

\* the words of the old struct body
OldStructBody == {<<OldStruct.segment, OldStruct.ptr + k>> : k \in 0..(wordSize(OldStructRef) - 1)}

\* the old storage of the object the last operation moved
OldStorage ==
    IF Upgraded THEN OldStructBody \cup OldPadWords
    ELSE IF ListUpgraded THEN OldListBody \cup OldPadWords
    ELSE {}

\* C23: after a struct upgrade or a struct-list upgrade every word of the old
\* object's storage is zero: the old struct body, or the old list body with
\* the tag word of an inline-composite list, and the landing pad of the old
\* pointer if it was a far pointer.
C23_UpgradeZeroesOldStorage ==
    \A q \in OldStorage : GetWord(bd.A, q[1], q[2]) = ZeroWord


\* ---------------------------------------------------------------------------
\* C24: readListPointer and readObjectPointer on an inline-composite list
\* whose tag does not fit.

\* the accessors that go through readListPointer or readObjectPointer
ListOrObjectOps == {"getListField", "getObjectField", "getListElement", "getObjectElement"}

\* what followFars made of the pointer the last accessor resolved
SlotFollowed == followFars(rd.mem, rd.before, SlotOf, rd.from.segment)

\* the pointer word that describes the object, and the tag word of an
\* inline-composite list
SlotPointer == WordOf(rd.mem, SlotFollowed.ref.s, SlotFollowed.ref.a)

SlotTag == WordOf(rd.mem, SlotFollowed.segment, SlotFollowed.ptr)

\* the last accessor resolved a pointer to an inline-composite list whose tag
\* and declared words lie inside the segment
CompositeListRead ==
    /\ rd.op \in ListOrObjectOps
    /\ SlotHeld
    /\ ~SlotFollowed.null
    /\ Kind(SlotPointer) = LIST /\ elementSize(SlotPointer) = INLINE_COMPOSITE
    /\ InsideSegment(rd.mem, SlotFollowed.segment, SlotFollowed.ptr,
                     SlotFollowed.ptr + POINTER_SIZE_IN_WORDS
                       + inlineCompositeWordCount(SlotPointer))

\* a * b > n for naturals, as the product is in arithmetic: evaluated without
\* forming the product, which does not fit the integers of the model checker
ProductExceeds(a, b, n) == b > 0 /\ a > n \div b

\* the tag is not a struct tag, or its elements need more words than declared
TagUnfit ==
    \/ Kind(SlotTag) # STRUCT
    \/ ProductExceeds(inlineCompositeListElementCount(SlotTag), wordSize(SlotTag),
                      inlineCompositeWordCount(SlotPointer))

\* the elements of the list reader l fit in n words
ElementsWithin(l, n) == ~ProductExceeds(l.elementCount, l.step \div BITS_PER_WORD, n)

\* C24: readList and readObject reject an inline-composite list whose tag is
\* not of kind STRUCT or whose elementCount * wordsPerElement exceeds the
\* declared word count: a validation error is recorded and the default comes
\* back; no list reader they return has elements past the declared words.
C24_UnfitTagRejected ==
    CompositeListRead =>
        /\ TagUnfit => IsDefault(rd.res) /\ rd.c.errs > rd.before.errs
        /\ ~IsDefault(rd.res) /\ rd.res.type = "list" =>
             ElementsWithin(rd.res, inlineCompositeWordCount(SlotPointer))


\* ---------------------------------------------------------------------------
\* C25: the size check of readListPointer against the product in arithmetic.

\* readListPointer accepted the inline-composite list the last accessor
\* resolved: a list reader came back
CompositeListAccepted ==
    /\ CompositeListRead
    /\ rd.op \in {"getListField", "getListElement"}
    /\ ~IsDefault(rd.res)

\* C25: an inline-composite list is accepted only if elementCount *
\* (dataSize + pointerCount) of its tag, as a product of naturals without
\* wrap-around, is at most the word count the list pointer declares.
C25_TrueProductChecked ==
    CompositeListAccepted =>
        ~ProductExceeds(inlineCompositeListElementCount(SlotTag),
                        dataSize(SlotTag) + ptrCount(SlotTag),
                        inlineCompositeWordCount(SlotPointer))


\* ---------------------------------------------------------------------------
\* C26: far pointers the reader cannot follow.

\* the word of the pointer the last accessor resolved
SlotWord == WordOf(rd.mem, SlotOf.s, SlotOf.a)

\* the last accessor resolved a far pointer
FarRead == rd.op \in ResolvingOps /\ SlotHeld /\ Kind(SlotWord) = FAR

\* the far pointer names a segment the arena does not have
UnknownSegment == tryGetSegment(rd.mem, segmentId(SlotWord)) = NoSegment

\* the landing pad of the far pointer, one word or two, is not wholly inside
\* the segment it names
PadOutside ==
    /\ ~UnknownSegment
    /\ ~InsideSegment(rd.mem, tryGetSegment(rd.mem, segmentId(SlotWord)),
                      farPositionInSegment(SlotWord),
                      farPositionInSegment(SlotWord)
                        + (IF isDoubleFar(SlotWord) THEN 2 ELSE 1) * POINTER_SIZE_IN_WORDS)

\* C26: followFars on a far pointer that names a segment the arena does not
\* have, or whose landing pad is not wholly inside that segment, returns a
\* null target and records a validation error, and the accessor answers with
\* the default.
C26_FarRejected ==
    FarRead /\ (UnknownSegment \/ PadOutside) =>
        /\ SlotFollowed.null
        /\ SlotFollowed.c.errs > rd.before.errs
        /\ IsDefault(rd.res)
        /\ rd.c.errs > rd.before.errs

\* a double far whose second landing-pad word lies outside the segment was
\* resolved, and one error was recorded
C26_Witness ==
    /\ FarRead /\ PadOutside /\ isDoubleFar(SlotWord)
    /\ InsideSegment(rd.mem, tryGetSegment(rd.mem, segmentId(SlotWord)),
                     farPositionInSegment(SlotWord), farPositionInSegment(SlotWord) + 1)
    /\ rd.c.errs = rd.before.errs + 1


\* ---------------------------------------------------------------------------
\* C27: a double-far landing pad that does not start with a far pointer.

\* the first word of the landing pad of the far pointer the last accessor
\* resolved
FirstPadWord ==
    WordOf(rd.mem, tryGetSegment(rd.mem, segmentId(SlotWord)), farPositionInSegment(SlotWord))

\* the last accessor followed a double far to a landing pad inside its
\* segment, and the first word of the pad is not a far pointer
PadNotFar ==
    /\ FarRead /\ isDoubleFar(SlotWord)
    /\ ~UnknownSegment /\ ~PadOutside
    /\ ~SlotFollowed.c.refused
    /\ Kind(FirstPadWord) # FAR

\* C27: a double far whose first landing-pad word is not of kind FAR is an
\* input-validation failure: an error is recorded, the target is null, the
\* accessor answers with the default and reading continues; the bits of
\* that word are not used as a position and no fatal precondition fires.
C27_PadNotFarRejected ==
    /\ rd.op # "abort"
    /\ PadNotFar =>
         /\ SlotFollowed.null
         /\ rd.c.errs > rd.before.errs
         /\ IsDefault(rd.res)


\* ---------------------------------------------------------------------------
\* C28: pointer indexes at or past the pointer count of a struct reader.

\* the getters of a pointer field of a struct reader
PointerGetters == FieldOps \cup {"isPointerFieldNull"}

\* the last call was a pointer getter with an index that is not in the
\* pointer section of the reader it was called on
IndexPastPointers == rd.op \in PointerGetters /\ rd.arg[1] >= rd.from.pointerCount

\* the last call was such a getObjectField and the process ended in it
StoppedPastPointers ==
    /\ rd.op = "abort" /\ rd.arg[1] = "getObjectField"
    /\ rd.arg[2] >= rd.from.pointerCount

\* C28: every pointer getter of a struct reader (getStructField,
\* getListField, getBlobField, getObjectField, isPointerFieldNull) takes an
\* index at or past pointerCount for a null pointer: it returns the default
\* (isPointerFieldNull: true) and reads no word, so nothing is consumed from
\* the limiter, no error is recorded and the call returns.
C28_IndexPastPointersIsNull ==
    /\ ~StoppedPastPointers
    /\ IndexPastPointers =>
         /\ IF rd.op = "isPointerFieldNull" THEN rd.res.ok ELSE IsDefault(rd.res)
         /\ rd.c = rd.before


\* ---------------------------------------------------------------------------
\* C29: readTextPointer.

\* the last accessor was readTextPointer on a pointer that is not null
TextRead == rd.op \in {"getTextField", "getTextElement"} /\ SlotHeld

\* the pointer is a list of bytes that passes the bounds check (its words lie
\* in its segment and the traversal limit grants them), has at least one
\* element and ends with a zero byte
TextWellFormed ==
    /\ ~SlotFollowed.null
    /\ Kind(SlotPointer) = LIST
    /\ elementSize(SlotPointer) = BYTE
    /\ InsideSegment(rd.mem, SlotFollowed.segment, SlotFollowed.ptr,
                     SlotFollowed.ptr + roundUpBytesToWords(elementCount(SlotPointer)))
    /\ roundUpBytesToWords(elementCount(SlotPointer)) <= SlotFollowed.c.limit
    /\ elementCount(SlotPointer) > 0
    /\ ByteAt(rd.mem, SlotFollowed.segment, SlotFollowed.ptr, elementCount(SlotPointer) - 1) = 0

\* C29: readText on a pointer that is not a list of BYTE, that is out of
\* bounds, that has element count 0 or whose last byte is not 0x00 records
\* a validation error and returns the default text; otherwise it returns a
\* view of exactly elementCount - 1 bytes at the target of the pointer.
C29_TextChecked ==
    TextRead =>
        IF TextWellFormed
          THEN /\ rd.res = BlobReader("text", SlotFollowed.segment, SlotFollowed.ptr,
                                      elementCount(SlotPointer) - 1)
               /\ rd.c.errs = rd.before.errs
          ELSE IsDefault(rd.res) /\ rd.c.errs > rd.before.errs

\* a list of bytes inside its segment whose last byte is not zero was read
\* as text
C29_Witness ==
    /\ TextRead /\ ~TextWellFormed
    /\ ~SlotFollowed.null
    /\ Kind(SlotPointer) = LIST /\ elementSize(SlotPointer) = BYTE
    /\ elementCount(SlotPointer) > 0
    /\ InsideSegment(rd.mem, SlotFollowed.segment, SlotFollowed.ptr,
                     SlotFollowed.ptr + roundUpBytesToWords(elementCount(SlotPointer)))
    /\ roundUpBytesToWords(elementCount(SlotPointer)) <= SlotFollowed.c.limit
    /\ IsDefault(rd.res)


\* ---------------------------------------------------------------------------
\* C30: pointers of the reserved kind met by the builder.  The builder writes
\* no such pointer itself; the arenas here are those of a message whose
\* pointer field, or an element of the pointer list in it, holds a word of
\* the reserved kind, and the operations are applied to that field.

\* operations in one run
ReservedOps == 2

\* words of the reserved kind
ReservedWords == {<<3, 0, 0, 0, 0, 0, 0, 0>>, <<7, 0, 0, 0, 1, 0, 0, 0>>}

\* initRoot on a new message with segment size S: a struct of two pointers
ReservedRoot(S) ==
    initStructPointer(WithRoot([segs |-> <<>>, S |-> S], FALSE), RootRef, 0,
                      StructSize(1, 2, INLINE_COMPOSITE))

\* where the word of the reserved kind lies: in pointer field 0 of the root,
\* or in element k of the pointer list that field 0 points to, whose elements
\* T are texts
ReservedPlaces ==
    {[at |-> "field"]}
      \cup {[at |-> "element", k |-> k, T |-> T] :
              k \in 0..(ListCount - 1), T \in ElementSets}

\* the arena of root r with the word w at place p
ReservedArena(r, p, w) ==
    IF p.at = "field" THEN SetWord(r.A, ListSlot(r).s, ListSlot(r).a, w)
    ELSE CHOOSE res \in {SetWord(b.A, b.l.segment, b.l.ptr + p.k, w) :
                           b \in {PointerList(r, p.T \ {p.k})}} : TRUE

\* the default values of pointer field 1: a struct of one data word, and a
\* struct whose pointer is of the reserved kind
ReservedDefaults ==
    {<<StructPtr(0, 1, 0), DataValue>>} \cup {<<StructPtr(0, 0, 1), w>> : w \in ReservedWords}

InitReserved ==
    /\ \E S \in SegmentSizes, p \in ReservedPlaces, w \in ReservedWords, D \in ReservedDefaults :
       \E r \in {ReservedRoot(S)} :
       \E A \in {ReservedArena(r, p, w)} :
         bd = [pc |-> "on", A |-> A, pre |-> A, root |-> TRUE, cur |-> r.b, lst |-> NoBuilder,
               n |-> 0, op |-> "none", slot |-> ListSlot(r), arg |-> <<>>, res |-> NoBuilder,
               D |-> D]
    /\ pk = Off /\ rd = Off /\ fr = Off

CanReserved == bd.pc = "on" /\ bd.n < ReservedOps

\* the operation returned
OpReturned(op, slot, A, res) ==
    /\ bd' = [bd EXCEPT !.op = op, !.slot = slot, !.pre = bd.A, !.A = A, !.res = res,
                        !.n = @ + 1]
    /\ UNCHANGED <<pk, rd, fr>>

\* a PRECOND or FAIL_PRECOND failed in the operation: it does not return
OpFailed(op, slot) ==
    /\ bd' = [bd EXCEPT !.pc = "fatal", !.op = op, !.slot = slot, !.pre = bd.A,
                        !.res = NoBuilder, !.n = @ + 1]
    /\ UNCHANGED <<pk, rd, fr>>

\* StructBuilder::initStructField(0, size): the object behind the field is
\* zeroed (zeroObject) and a new struct allocated
InitStructOver ==
    /\ CanReserved
    /\ \E size \in StructSizes :
       \E out \in {initStructPointer(bd.A, FieldRef(0), bd.cur.segment, size)} :
         OpReturned("initStruct", FieldRef(0), out.A, out.b)

\* StructBuilder::getStructField(0, size, nullptr): a pointer that is not a
\* struct pointer is a validation failure, and the field is initialised
GetStructOver ==
    /\ CanReserved
    /\ \E size \in StructSizes :
       \E out \in {getWritableStructPointerDefault(bd.A, FieldRef(0), bd.cur.segment, size,
                                                   NoDefault)} :
         OpReturned("getStruct", FieldRef(0), out.A, out.b)

\* StructBuilder::getBlobField<Text>(0, "", 0): on a pointer that is not null
\* the kind and the element size are preconditions
GetTextOver ==
    /\ CanReserved
    /\ LET w == GetWord(bd.A, FieldRef(0).s, FieldRef(0).a)
           f == followFarsBuilder(bd.A, FieldRef(0), bd.cur.segment)
           fw == GetWord(bd.A, f.ref.s, f.ref.a)
       IN  IF isNull(w)
             THEN \E out \in {initTextPointer(bd.A, FieldRef(0), bd.cur.segment, 0)} :
                    OpReturned("getText", FieldRef(0), out.A,
                             [segment |-> out.segment, ptr |-> out.ptr, size |-> 0])
           ELSE IF Kind(fw) # LIST \/ elementSize(fw) # BYTE
             THEN OpFailed("getText", FieldRef(0))
           ELSE OpReturned("getText", FieldRef(0), bd.A,
                         getWritableTextPointer(bd.A, FieldRef(0), bd.cur.segment))

\* the copy of the default D meets a pointer that is neither struct nor list:
\* the root pointer of D, or a pointer of the struct it points to
CopyMeetsReserved(D) ==
    \/ Kind(D[1]) = RESERVED_3
    \/ /\ Kind(D[1]) = STRUCT
       /\ \E i \in 0..(ptrCount(D[1]) - 1) :
            Kind(D[Target(0, D[1]) + dataSize(D[1]) + i + 1]) = RESERVED_3

\* StructBuilder::getStructField(1, size, D) on the null field 1: the
\* default is copied by copyMessage, which takes a pointer of another kind
\* than struct or list for a failed precondition
GetStructCopy ==
    /\ CanReserved
    /\ isNull(GetWord(bd.A, FieldRef(1).s, FieldRef(1).a))
    /\ \E size \in StructSizes :
         IF CopyMeetsReserved(bd.D) THEN OpFailed("getStructDefault", FieldRef(1))
         ELSE \E out \in {getWritableStructPointerDefault(bd.A, FieldRef(1), bd.cur.segment,
                                                         size, bd.D)} :
                OpReturned("getStructDefault", FieldRef(1), out.A, out.b)

NextReserved ==
    \/ InitStructOver
    \/ GetStructOver
    \/ GetTextOver
    \/ GetStructCopy

SpecReserved == InitReserved /\ [][NextReserved]_vars

\* the word of the pointer the last operation was applied to, before it
SlotBefore == GetWord(bd.pre, bd.slot.s, bd.slot.a)

\* the pointer list behind the slot, before the last operation, has an
\* element of the reserved kind
ReservedElement ==
    /\ Kind(SlotBefore) \in {LIST, FAR}
    /\ LET f == followFarsBuilder(bd.pre, bd.slot, bd.slot.s)
           fw == GetWord(bd.pre, f.ref.s, f.ref.a)
       IN  /\ Kind(fw) = LIST /\ elementSize(fw) = POINTER
           /\ \E k \in 0..(elementCount(fw) - 1) :
                Kind(GetWord(bd.pre, f.segment, f.ptr + k)) = RESERVED_3

\* the last operation met a pointer of the reserved kind: it was applied to
\* one, it zeroed a list that holds one, or it copied a default that holds one
MetReserved ==
    \/ bd.op \in {"initStruct", "getStruct", "getText"} /\ Kind(SlotBefore) = RESERVED_3
    \/ bd.op \in {"initStruct", "getStruct"} /\ ReservedElement
    \/ bd.op = "getStructDefault" /\ CopyMeetsReserved(bd.D)

\* C30: a pointer of the reserved kind (value 3) is fatal on every builder
\* path that meets it: zeroing an overwritten object, getting a writable
\* struct or text, copying a default.
C30_ReservedFatalForBuilder == MetReserved => bd.pc = "fatal"


\* ---------------------------------------------------------------------------
\* Upgrading lists.  The builder after a caller built a root struct and, in
\* its pointer field 0, a list with content in every element: a list of bits,
\* bytes, two-byte or four-byte values, a list of pointers, or a struct list.
\* The caller then asks for the field as a struct list, UpgradeOps times, with
\* element struct sizes of every list encoding.

\* the getStructListField calls that follow
UpgradeOps == 2

\* element counts of the data lists: the second one makes a list of bits
\* span two bytes
DataListCounts == {ListCount, 9}

DataListSizes == {BIT, BYTE, TWO_BYTES, FOUR_BYTES}

\* the first bytes that are stored in the data lists
FillStarts == {1, 165, 254}

\* bytes that a list of count elements of size es spans
ListBodyBytes(es, count) == roundUpToBytes(count * dataBitsPerElement(es))

\* the content of a data list after setDataElement on every element: byte j
\* of the list body; a list of bits has no bit set past its last element
FillBytes(es, count, p) ==
    [j \in 1..ListBodyBytes(es, count) |->
        IF es = BIT /\ 8 * j > count
        THEN ((p + 36 * (j - 1)) % 256) % (2 ^ (count - 8 * (j - 1)))
        ELSE (p + 36 * (j - 1)) % 256]

\* initListField(0, count) of element size es, then setDataElement
DataList(r, es, count, p) ==
    CHOOSE res \in
      {[A |-> WriteBytes(il.A, il.l.segment, il.l.ptr, FillBytes(es, count, p)), l |-> il.l] :
         il \in {initListPointer(r.A, ListSlot(r), r.b.segment, count, es)}} : TRUE

\* what the caller built before the upgrade
UpgradeChoices ==
    {[list |-> "data", es |-> es, count |-> count, p |-> p] :
        es \in DataListSizes, count \in DataListCounts, p \in FillStarts}
      \cup {[list |-> "pointers", T |-> T] : T \in ElementSets}
      \cup {[list |-> "structs", size |-> size, T |-> T, U |-> U] :
              size \in StructListSizes, T \in ElementSets, U \in ElementSets}

ListToUpgrade(r, c) ==
    IF c.list = "data" THEN DataList(r, c.es, c.count, c.p)
    ELSE IF c.list = "pointers" THEN PointerList(r, c.T)
    ELSE StructList(r, c.size, c.T, c.U)

InitUpgrade ==
    /\ \E S \in SegmentSizes, c \in UpgradeChoices :
       \E r \in {BuiltRoot(S)} :
       \E b \in {ListToUpgrade(r, c)} :
         bd = [pc |-> "on", A |-> b.A, pre |-> b.A, root |-> TRUE, cur |-> r.b, lst |-> b.l,
               n |-> MaxOps - UpgradeOps, op |-> "none", slot |-> RootRef, arg |-> <<>>,
               res |-> NoBuilder]
    /\ pk = Off /\ rd = Off /\ fr = Off

\* the element struct sizes the schema may ask for: structs of one data field
\* of each width, of one pointer, and larger structs
UpgradeSizes ==
    {StructSize(1, 0, BYTE), StructSize(1, 0, TWO_BYTES), StructSize(1, 0, FOUR_BYTES),
     StructSize(1, 0, EIGHT_BYTES), StructSize(0, 1, POINTER),
     StructSize(1, 1, INLINE_COMPOSITE), StructSize(2, 1, INLINE_COMPOSITE),
     StructSize(1, 2, INLINE_COMPOSITE)}

\* StructBuilder::getStructListField on pointer field 0 of the root
GetStructListUpgrade ==
    /\ CanBuild
    /\ \E size \in UpgradeSizes :
            \E out \in {getWritableStructListPointer(bd.A, FieldRef(0), bd.cur.segment, size)} :
                Built("getStructList", FieldRef(0), size, bd.A, out.A, bd.cur, out.l, out.l)

NextUpgrade == GetStructListUpgrade

SpecUpgrade == InitUpgrade /\ [][NextUpgrade]_vars


\* the old list of the last getStructListField: its element count, the data
\* bits and the pointers of one element, and the byte its element k starts at
OldElementCount ==
    IF elementSize(OldListRef) = INLINE_COMPOSITE
    THEN inlineCompositeListElementCount(OldListTag) ELSE elementCount(OldListRef)

OldDataBits ==
    IF elementSize(OldListRef) = INLINE_COMPOSITE
    THEN dataSize(OldListTag) * BITS_PER_WORD ELSE dataBitsPerElement(elementSize(OldListRef))

OldPointerCount ==
    IF elementSize(OldListRef) = INLINE_COMPOSITE
    THEN ptrCount(OldListTag) ELSE pointersPerElement(elementSize(OldListRef))

OldElementByte(k) ==
    IF elementSize(OldListRef) = INLINE_COMPOSITE
    THEN 8 * (OldList.ptr + POINTER_SIZE_IN_WORDS + k * wordSize(OldListTag))
    ELSE 8 * OldList.ptr + k * ((OldDataBits + OldPointerCount * BITS_PER_WORD) \div 8)

\* bit k of the old list of bits
OldBit(k) == (ByteOfSegment(bd.pre, OldList.segment, 8 * OldList.ptr + k \div 8) \div (2 ^ (k % 8))) % 2

\* the data of element k before the upgrade, byte by byte (a bit reads 0 or 1)
OldData(k) ==
    IF OldDataBits = 1 THEN <<OldBit(k)>>
    ELSE [j \in 1..(OldDataBits \div 8) |->
            ByteOfSegment(bd.pre, OldList.segment, OldElementByte(k) + j - 1)]

\* the data section of element k of the returned list, byte by byte
NewData(k) ==
    [j \in 1..(bd.res.structDataSize \div 8) |->
        ByteOfSegment(bd.A, bd.res.segment, 8 * bd.res.ptr + k * (bd.res.step \div 8) + j - 1)]

\* the bytes d in a field of n bytes whose other bits are zero
Widened(d, n) == [j \in 1..n |-> IF j <= Len(d) THEN d[j] ELSE 0]

\* pointer i of element k of the old list
OldElementPointer(k, i) ==
    Ref(OldList.segment, OldElementByte(k) \div 8 + OldDataBits \div BITS_PER_WORD + i)

\* the pointer at dst reads what the pointer at src read before the operation
ReadsAsBefore(dst, src) ==
    IF isNull(GetWord(bd.pre, src.s, src.a)) THEN isNull(GetWord(bd.A, dst.s, dst.a))
    ELSE /\ ~isNull(GetWord(bd.A, dst.s, dst.a))
         /\ FarsFollowed(bd.A, dst) = FarsFollowed(bd.pre, src)

\* C31: after getWritableStructList upgraded a list, the returned list has the
\* element count of the old one; the data section of its element k holds the
\* data of old element k in its first bytes (an old bit k as the low bit of the
\* first byte) and zero everywhere else; pointer i of its element k reads what
\* pointer i of old element k read, and the pointers that were added are null.
C31_UpgradeKeepsElements ==
    ListUpgraded =>
        /\ bd.res.elementCount = OldElementCount
        /\ bd.res.structDataSize >= OldDataBits
        /\ bd.res.structPointerCount >= OldPointerCount
        /\ \A k \in 0..(OldElementCount - 1) :
             /\ NewData(k) = Widened(OldData(k), bd.res.structDataSize \div 8)
             /\ \A i \in 0..(bd.res.structPointerCount - 1) :
                  IF i < OldPointerCount
                  THEN ReadsAsBefore(NewElementPointer(k, i), OldElementPointer(k, i))
                  ELSE isNull(GetWord(bd.A, NewElementPointer(k, i).s, NewElementPointer(k, i).a))

\* a list of nine bits whose bits 0 and 8 were set and bit 1 was not became a
\* list of wider elements
C31_Witness ==
    /\ ListUpgraded
    /\ elementSize(OldListRef) = BIT /\ OldElementCount = 9
    /\ OldBit(0) = 1 /\ OldBit(1) = 0 /\ OldBit(8) = 1
    /\ NewData(8)[1] = 1


\* ---------------------------------------------------------------------------
\* One SegmentBuilder on its own: a caller allocates from it and resets it.
\* given lists the word ranges <<ptr, amount>> the successful allocate calls
\* returned since the last reset, in call order.

\* sizes of the segment's array, calls in one run, and the largest amount asked
MaxSegmentWords == 5

MaxAllocations == 4

MaxAmount == 6

InitSegment ==
    /\ \E n \in 1..MaxSegmentWords :
         bd = [pc |-> "segment", sb |-> SegmentBuilder(n), before |-> SegmentBuilder(n),
               given |-> <<>>, op |-> "none", amount |-> 0,
               res |-> [ok |-> FALSE, ptr |-> 0], n |-> 0]
    /\ pk = Off /\ rd = Off /\ fr = Off

\* SegmentBuilder::allocate(amount)
Allocate ==
    /\ bd.pc = "segment" /\ bd.n < MaxAllocations
    /\ \E amount \in 0..MaxAmount :
       \E out \in {segmentAllocate(bd.sb, amount)} :
         bd' = [bd EXCEPT !.before = bd.sb, !.sb = out.sb, !.op = "allocate",
                          !.amount = amount, !.res = [ok |-> out.ok, ptr |-> out.ptr],
                          !.given = IF out.ok THEN Append(@, <<out.ptr, amount>>) ELSE @,
                          !.n = @ + 1]
    /\ UNCHANGED <<pk, rd, fr>>

\* SegmentBuilder::reset()
ResetSegment ==
    /\ bd.pc = "segment" /\ bd.n < MaxAllocations
    /\ bd' = [bd EXCEPT !.before = bd.sb, !.sb = reset(bd.sb), !.op = "reset", !.amount = 0,
                        !.res = [ok |-> FALSE, ptr |-> 0], !.given = <<>>, !.n = @ + 1]
    /\ UNCHANGED <<pk, rd, fr>>

NextSegment == Allocate \/ ResetSegment

SpecSegment == InitSegment /\ [][NextSegment]_vars

\* the words of a range <<ptr, amount>>
RangeWords(g) == g[1]..(g[1] + g[2] - 1)

\* C32: allocate(n) returns the old pos and advances pos by exactly n when n
\* is at most end - pos, and otherwise returns nil and leaves pos where it
\* was; the ranges returned by the successful calls since the last reset are
\* pairwise disjoint, and pos is never past the end of the segment.
C32_AllocateAdvances ==
    bd.pc = "segment" =>
        /\ bd.op = "allocate" =>
             IF bd.amount <= Len(bd.before.words) - bd.before.pos
             THEN bd.res.ok /\ bd.res.ptr = bd.before.pos
                    /\ bd.sb.pos = bd.before.pos + bd.amount
             ELSE ~bd.res.ok /\ bd.sb.pos = bd.before.pos
        /\ \A i, j \in 1..Len(bd.given) :
             i < j => RangeWords(bd.given[i]) \cap RangeWords(bd.given[j]) = {}
        /\ \A i \in 1..Len(bd.given) : RangeWords(bd.given[i]) \subseteq 0..(bd.sb.pos - 1)
        /\ bd.sb.pos <= Len(bd.sb.words)

\* three ranges were handed out, the segment is full, and a further call was
\* refused
C32_Witness ==
    /\ bd.pc = "segment" /\ bd.op = "allocate" /\ ~bd.res.ok /\ bd.amount = 1
    /\ Len(bd.given) = 3 /\ \A i \in 1..3 : bd.given[i][2] > 0
    /\ bd.sb.pos = Len(bd.sb.words)


\* ---------------------------------------------------------------------------
\* containsInterval on its own: the longer messages, with intervals that
\* start before the segment, inside it or past its end (from never after to,
\* as in every call the layout code makes)

\* SegmentReader::containsInterval(from, to) called directly on a segment;
\* from and to are word addresses relative to the segment's start
ContainsIntervalAt ==
    /\ rd.n < MaxReads
    /\ \E seg \in 0..(Len(rd.mem) - 1) :
       \E from \in (-1)..(Len(rd.mem[seg + 1]) + 1) :
       \E to \in from..Min(from + MaxRequest, Len(rd.mem[seg + 1]) + 2) :
       \E ci \in {containsInterval(rd.mem, rd.c, seg, from, to)} :
           rd' = [rd EXCEPT !.op = "containsIntervalAt", !.arg = <<seg, from, to>>,
                            !.res = [type |-> "bool", ok |-> ci.ok],
                            !.before = rd.c, !.c = ci.c, !.n = @ + 1]
    /\ UNCHANGED <<pk, bd, fr>>

NextInterval == ContainsIntervalAt \/ ReadRoot

SpecInterval == InitLimiter /\ [][NextInterval]_vars

\* the word address a is an address of segment seg, its end included
EndpointInside(seg, a) == a >= 0 /\ a <= Len(rd.mem[seg + 1])

\* C33: containsInterval(from, to) returns true exactly when both endpoints
\* lie inside the segment and the limiter holds at least to - from words, and
\* then the limiter has decreased by exactly that amount and no error is
\* recorded; when it returns false the limiter is unchanged, and an error is
\* recorded exactly when the endpoints were inside and the limiter was short.
C33_ContainsIntervalFrame ==
    rd.op = "containsIntervalAt" =>
        LET inside == EndpointInside(rd.arg[1], rd.arg[2]) /\ EndpointInside(rd.arg[1], rd.arg[3])
            amount == rd.arg[3] - rd.arg[2]
        IN  /\ rd.res.ok <=> (inside /\ rd.before.limit >= amount)
            /\ IF rd.res.ok
               THEN rd.c.limit = rd.before.limit - amount /\ rd.c.errs = rd.before.errs
               ELSE /\ rd.c.limit = rd.before.limit
                    /\ rd.c.errs = IF inside THEN rd.before.errs + 1 ELSE rd.before.errs

\* after a granted interval, an interval inside the segment was refused for
\* lack of limit and one reaching past the segment's end was refused silently
C33_Witness ==
    /\ rd.op = "containsIntervalAt" /\ ~rd.res.ok
    /\ rd.arg[3] > Len(rd.mem[rd.arg[1] + 1]) /\ rd.arg[2] > 0
    /\ rd.c.errs = 1 /\ rd.c.limit < rd.L /\ rd.c.limit >= rd.arg[3] - rd.arg[2]


\* ---------------------------------------------------------------------------
\* ReadLimiter::unread.  The limit is a WordCount64, an unsigned 64-bit
\* quantity, kept here as four 16-bit limbs, least significant first.

\* one more than the largest limb
LimbBase == 65536

\* the 64-bit quantity of a number below 2^31, and back
U64(n) == <<n % LimbBase, n \div LimbBase, 0, 0>>

NumberOf(x) == x[1] + LimbBase * x[2]

IsSmall64(x) == x[3] = 0 /\ x[4] = 0 /\ x[2] < 16384

\* a + b in uint64_t arithmetic: the sum wraps at 2^64
Add64(a, b) ==
    LET s1 == a[1] + b[1]
        s2 == a[2] + b[2] + s1 \div LimbBase
        s3 == a[3] + b[3] + s2 \div LimbBase
        s4 == a[4] + b[4] + s3 \div LimbBase
    IN  <<s1 % LimbBase, s2 % LimbBase, s3 % LimbBase, s4 % LimbBase>>

\* a > b for uint64_t
Greater64(a, b) ==
    \E i \in 1..4 : a[i] > b[i] /\ \A j \in (i + 1)..4 : a[j] = b[j]

\* ReadLimiter::unread that stores the sum whatever it is
unreadWrapping(limit, amount) == Add64(limit, amount)

\* ReadLimiter::unread(amount): the new limit
unread(limit, amount) ==
    LET newValue == Add64(limit, amount)
    IN  IF Greater64(newValue, limit) THEN newValue ELSE limit

\* calls of unread in one run
MaxUnreads == 3

\* limits and amounts: small ones, the default limit 2^63 - 1, and values
\* next to 2^16, 2^32, 2^63 and 2^64
Quantities64 ==
    {U64(0), U64(1), U64(2), U64(65535), U64(65536),
     <<65535, 65535, 0, 0>>, <<0, 0, 1, 0>>,
     <<65535, 65535, 65535, 32767>>, <<0, 0, 0, 32768>>,
     <<65534, 65535, 65535, 65535>>, <<65535, 65535, 65535, 65535>>}

InitUnread ==
    /\ \E limit \in Quantities64 :
         rd = [pc |-> "limiter", limit |-> limit, before |-> limit, amount |-> U64(0),
               op |-> "none", n |-> 0]
    /\ pk = Off /\ bd = Off /\ fr = Off

\* ReadLimiter::unread(amount)
Unread ==
    /\ rd.pc = "limiter" /\ rd.n < MaxUnreads
    /\ \E amount \in Quantities64 :
         rd' = [rd EXCEPT !.op = "unread", !.amount = amount, !.before = rd.limit,
                          !.limit = unread(rd.limit, amount), !.n = @ + 1]
    /\ UNCHANGED <<pk, bd, fr>>

NextUnread == Unread

SpecUnread == InitUnread /\ [][NextUnread]_vars

\* a + b as a natural number of five limbs: the fifth limb is the carry out
\* of the 64-bit sum
Sum(a, b) ==
    LET s1 == a[1] + b[1]
        s2 == a[2] + b[2] + s1 \div LimbBase
        s3 == a[3] + b[3] + s2 \div LimbBase
        s4 == a[4] + b[4] + s3 \div LimbBase
    IN  <<s1 % LimbBase, s2 % LimbBase, s3 % LimbBase, s4 % LimbBase, s4 \div LimbBase>>

\* C34: unread(n) makes the limit limit + n, unless limit + n wrapped around
\* 2^64 and so does not exceed the previous value, and then the limit keeps
\* its previous value; the limit never becomes smaller.
C34_UnreadSaturates ==
    rd.pc = "limiter" /\ rd.op = "unread" =>
        /\ rd.limit = IF Sum(rd.before, rd.amount)[5] = 0
                      THEN SubSeq(Sum(rd.before, rd.amount), 1, 4) ELSE rd.before
        /\ IsSmall64(rd.before) /\ IsSmall64(rd.amount)
             => NumberOf(rd.limit) = NumberOf(rd.before) + NumberOf(rd.amount)
        /\ ~Greater64(rd.before, rd.limit)

\* the limit reached 2^64 - 1 by an unread and a further unread of 2 left it there
C34_Witness ==
    /\ rd.pc = "limiter" /\ rd.op = "unread" /\ rd.n >= 2
    /\ rd.before = <<65535, 65535, 65535, 65535>> /\ rd.amount = U64(2)
    /\ rd.limit = rd.before


\* ---------------------------------------------------------------------------
\* StructReader::totalSize.  A traversal comes to: the words counted (size),
\* the reading context (c), the pointers it resolved, that is the calls of
\* followFars it made (n), and whether it read a word outside the message
\* (stray).

NoSize(c) == [size |-> 0, c |-> c, n |-> 0, stray |-> FALSE]

StraySize(c) == [size |-> 0, c |-> c, n |-> 0, stray |-> TRUE]

\* result += totalSize(...)
Counted(acc, t) ==
    [size |-> acc.size + t.size, c |-> t.c, n |-> acc.n + t.n, stray |-> t.stray]

\* the word at address a of segment seg is a word of the message
InMessage(mem, seg, a) == seg # NoSegment /\ a >= 0 /\ a < Len(mem[seg + 1])

\* the addresses of the pointers of a struct at ptr described by w, of a list
\* of count pointers at ptr, and of the elements after the tag at ptr
StructPointerAddrs(ptr, w) == [i \in 1..ptrCount(w) |-> ptr + dataSize(w) + i - 1]

ListPointerAddrs(ptr, count) == [i \in 1..count |-> ptr + i - 1]

ElementPointerAddrs(ptr, tag) ==
    [q \in 1..(inlineCompositeListElementCount(tag) * ptrCount(tag)) |->
        ptr + POINTER_SIZE_IN_WORDS + ((q - 1) \div ptrCount(tag)) * wordSize(tag)
          + dataSize(tag) + ((q - 1) % ptrCount(tag))]

RECURSIVE totalSize(_, _, _, _, _)

RECURSIVE totalSizeOver(_, _, _, _, _, _)
\* the loops of totalSize: result += totalSize(segment, pointer, nestingLimit)
\* for the pointers at addrs[k], addrs[k + 1], ...
totalSizeOver(mem, acc, segment, addrs, k, nestingLimit) ==
    IF k > Len(addrs) \/ acc.stray THEN acc
    ELSE CHOOSE res \in UNION
           {{totalSizeOver(mem, y, segment, addrs, k + 1, nestingLimit) :
               y \in {Counted(acc, t)}} :
              t \in {totalSize(mem, acc.c, segment, [s |-> segment, a |-> addrs[k]],
                               nestingLimit)}} : TRUE

\* totalSize, case WirePointer::LIST with elementSize INLINE_COMPOSITE; bc is
\* the bounds check of the tag and the declared words
totalSizeOfStructList(mem, f, w, bc, nestingLimit) ==
    LET tag == WordOf(mem, f.segment, f.ptr)
        counted == [size |-> inlineCompositeWordCount(w) + POINTER_SIZE_IN_WORDS, c |-> bc.c,
                    n |-> 0, stray |-> FALSE]
    IN  IF ~bc.ok THEN NoSize(Report(bc.c))
        ELSE IF Kind(tag) # STRUCT THEN [counted EXCEPT !.c = Report(bc.c)]
        ELSE IF ~U32Leq(WrapMul32(wordSize(tag), inlineCompositeListElementCount(tag)),
                        inlineCompositeWordCount(w))
        THEN [counted EXCEPT !.c = Report(bc.c)]
        ELSE IF ProductExceeds(inlineCompositeListElementCount(tag), wordSize(tag),
                               inlineCompositeWordCount(w))
        THEN [counted EXCEPT !.stray = ptrCount(tag) > 0]
        ELSE totalSizeOver(mem, counted, f.segment, ElementPointerAddrs(f.ptr, tag), 1,
                           nestingLimit)

\* totalSize, case WirePointer::LIST
totalSizeOfList(mem, f, w, nestingLimit) ==
    IF elementSize(w) = VOID THEN NoSize(f.c)
    ELSE IF elementSize(w) = INLINE_COMPOSITE
    THEN totalSizeOfStructList(mem, f, w,
                               boundsCheck(mem, f.c, f.segment, f.ptr,
                                           f.ptr + inlineCompositeWordCount(w)
                                             + POINTER_SIZE_IN_WORDS),
                               nestingLimit)
    ELSE IF elementSize(w) = POINTER
    THEN LET bc == boundsCheck(mem, f.c, f.segment, f.ptr, f.ptr + elementCount(w))
         IN  IF ~bc.ok THEN NoSize(Report(bc.c))
             ELSE totalSizeOver(mem, [size |-> elementCount(w), c |-> bc.c, n |-> 0,
                                      stray |-> FALSE],
                                f.segment, ListPointerAddrs(f.ptr, elementCount(w)), 1,
                                nestingLimit)
    ELSE LET totalWords == ListWordCount(elementCount(w), dataBitsPerElement(elementSize(w)))
             bc == boundsCheck(mem, f.c, f.segment, f.ptr, f.ptr + totalWords)
         IN  IF ~bc.ok THEN NoSize(Report(bc.c))
             ELSE [size |-> totalWords, c |-> bc.c, n |-> 0, stray |-> FALSE]

\* totalSize after a double-far pointer whose second segment is unknown:
\* followFars has reported it and left segment null and ref at the tag word w,
\* so boundsCheck grants everything and the object is looked for at nullptr
totalSizeUnchecked(f, w) ==
    IF Kind(w) = STRUCT
    THEN [size |-> wordSize(w), c |-> f.c, n |-> 0, stray |-> ptrCount(w) > 0]
    ELSE IF Kind(w) = LIST
    THEN IF elementSize(w) = VOID THEN NoSize(f.c)
         ELSE IF elementSize(w) = INLINE_COMPOSITE THEN StraySize(f.c)
         ELSE IF elementSize(w) = POINTER
         THEN [size |-> elementCount(w), c |-> f.c, n |-> 0, stray |-> elementCount(w) > 0]
         ELSE [size |-> ListWordCount(elementCount(w), dataBitsPerElement(elementSize(w))),
               c |-> f.c, n |-> 0, stray |-> FALSE]
    ELSE NoSize(Report(f.c))

\* totalSize from the switch on: f is what followFars gave, w the pointer
\* word ref is left at
totalSizeOf(mem, f, w, nestingLimit) ==
    IF f.null /\ f.segment = NoSegment /\ Kind(w) # FAR THEN totalSizeUnchecked(f, w)
    ELSE IF Kind(w) = STRUCT
    THEN LET bc == boundsCheck(mem, f.c, f.segment, f.ptr, f.ptr + wordSize(w))
         IN  IF ~bc.ok THEN NoSize(Report(bc.c))
             ELSE totalSizeOver(mem, [size |-> wordSize(w), c |-> bc.c, n |-> 0,
                                      stray |-> FALSE],
                                f.segment, StructPointerAddrs(f.ptr, w), 1, nestingLimit)
    ELSE IF Kind(w) = LIST THEN totalSizeOfList(mem, f, w, nestingLimit)
    ELSE NoSize(Report(f.c))

\* WireHelpers::totalSize(segment, ref, nestingLimit)
totalSize(mem, c, segment, ref, nestingLimit) ==
    IF ~InMessage(mem, ref.s, ref.a) THEN StraySize(c)
    ELSE IF isNull(WordOf(mem, ref.s, ref.a)) THEN NoSize(c)
    ELSE IF ~(nestingLimit > 0) THEN NoSize(Report(c))
    ELSE CHOOSE res \in UNION
           {{[t EXCEPT !.n = @ + 1] :
               t \in {totalSizeOf(mem, f, WordOf(mem, f.ref.s, f.ref.a), nestingLimit - 1)}} :
              f \in {followFars(mem, c, ref, segment)}} : TRUE

\* segment->unread(result) on the context c
Unreading(c, result) ==
    [c EXCEPT !.limit = NumberOf(unread(U64(@), U64(result)))]

\* StructReader::totalSize() on the struct reader r
structTotalSize(mem, c, r) ==
    CHOOSE res \in
      {IF r.segment = NoSegment \/ t.stray THEN t ELSE [t EXCEPT !.c = Unreading(t.c, t.size)] :
         t \in {totalSizeOver(mem, [size |-> roundUpBitsToWords(r.dataSize) + r.pointerCount,
                                    c |-> c, n |-> 0, stray |-> FALSE],
                              r.segment, ListPointerAddrs(r.pointers, r.pointerCount), 1,
                              r.nestingLimit)}} : TRUE

\* what a traversal that read outside the message can come to: the stray
\* word reads as null (the traversal ends with what it has), the read faults,
\* or the traversal ends on a rejected pointer
StrayOutcomes(t) ==
    IF t.stray THEN {t, [t EXCEPT !.c.fatal = TRUE], [t EXCEPT !.c = Report(@)]}
    ELSE {t}

\* StructReader::totalSize() called on the struct reader the caller holds,
\* which stays where it is
TotalSize ==
    /\ rd.n < MaxReads
    /\ rd.cur.type = "struct"
    /\ \E t \in StrayOutcomes(structTotalSize(rd.mem, rd.c, rd.cur)) :
       \E stops \in {FALSE} \cup {t.c.fatal} :
         rd' = IF stops
                 THEN [rd EXCEPT !.op = "abort", !.arg = <<"totalSize">>, !.res = Aborted,
                                 !.cur = Aborted, !.from = rd.cur, !.before = rd.c,
                                 !.c = t.c, !.n = MaxReads]
                 ELSE [rd EXCEPT !.op = "totalSize", !.arg = <<>>,
                                 !.res = [type |-> "size", segment |-> rd.cur.segment,
                                          words |-> t.size, n |-> t.n, stray |-> t.stray],
                                 !.from = rd.cur, !.before = rd.c,
                                 !.c = [t.c EXCEPT !.fatal = FALSE], !.n = @ + 1]
    /\ UNCHANGED <<pk, bd, fr>>

\* messages whose pointers form a cycle: a struct that is its own pointer, a
\* struct whose two pointers both lead back to it, a list of pointers whose
\* element is the pointer to the list, and a struct list whose element's
\* pointer leads back to the list
CyclicSegments ==
    { <<StructPtr(-1, 0, 1)>>,
      <<StructPtr(-1, 0, 2), StructPtr(-2, 0, 2)>>,
      <<StructPtr(0, 0, 1), ListPtr(-1, POINTER, 1)>>,
      <<StructPtr(0, 0, 1), ListPtr(0, INLINE_COMPOSITE, 1), StructPtr(1, 0, 1),
        ListPtr(-3, INLINE_COMPOSITE, 1)>> }

\* the messages whose size is taken
SizedMessages ==
    LET first == NestingSegments \cup FarSegments \cup TextSegments \cup ReservedKindSegments
                   \cup CyclicSegments
    IN  {<<q>> : q \in first} \cup {<<q, SecondSegment>> : q \in first}

InitTotalSize ==
    /\ \E m \in SizedMessages, L \in ReaderLimits :
         rd = [mem |-> m, L |-> L, N |-> NestingLimit, c |-> ReadingContext(L),
               before |-> ReadingContext(L), op |-> "none", arg |-> <<>>,
               res |-> DefaultObjectReader, cur |-> DefaultObjectReader,
               from |-> DefaultObjectReader, n |-> 0]
    /\ pk = Off /\ bd = Off /\ fr = Off

NextTotalSize ==
    \/ ReadRoot
    \/ GetStructField
    \/ GetListField
    \/ GetStructElement
    \/ TotalSize

SpecTotalSize == InitTotalSize /\ [][NextTotalSize]_vars


\* the words of the struct reader totalSize was called on: its data section
\* and its pointers
OwnWords == roundUpBitsToWords(rd.from.dataSize) + rd.from.pointerCount

\* the last operation was a totalSize traversal that ran to its end inside the
\* message and recorded no validation error
SizedCleanly ==
    rd.op = "totalSize" /\ rd.c.errs = rd.before.errs /\ ~rd.res.stray

\* C35: StructReader::totalSize() does not count against the read limit: when
\* the traversal completes without a validation error the limiter holds after
\* the call what it held before.  (Violated by the code: the words of the
\* struct itself are given back although this call never took them, and the
\* words of landing pads are taken and not given back.)
C35_TotalSizeRestoresLimit ==
    SizedCleanly => rd.c.limit = rd.before.limit


\* the accessors that descend from a reader into a struct or a list
DescendingOps == {"getStructField", "getListField", "getStructElement"}

\* the message read has a pointer cycle
IsCyclic == rd.mem[1] \in CyclicSegments

\* C39: on any message, one with a pointer cycle included, totalSize and the
\* reader descents come to an end: a totalSize traversal resolves at most as
\* many pointers as the struct it was called on has plus the words the limiter
\* held when it was called, and every reader a descent returns has a nesting
\* limit that is not negative and is smaller than that of the reader it came
\* from (than the limit of the root read, for the root).
C39_CyclesTerminate ==
    /\ rd.op = "totalSize" => rd.res.n <= rd.from.pointerCount + rd.before.limit
    /\ rd.op \in DescendingOps /\ ~IsDefault(rd.res)
         => rd.res.nestingLimit >= 0 /\ rd.res.nestingLimit < rd.from.nestingLimit
    /\ rd.op = "readRoot" /\ ~IsDefault(rd.res)
         => rd.res.nestingLimit >= 0 /\ rd.res.nestingLimit < rd.N

\* totalSize on a struct whose two pointers lead back to it went round the
\* cycle until the limiter refused a struct
C39_Witness ==
    /\ rd.op = "totalSize" /\ IsCyclic
    /\ rd.from.pointerCount = 2
    /\ rd.res.n > rd.from.pointerCount
    /\ rd.c.errs > rd.before.errs /\ rd.c.refused


\* ---------------------------------------------------------------------------
\* The BuilderArena's table of segments, as the code keeps it: segment0, a
\* SegmentBuilder inside the arena that has no arena pointer until the first
\* segment is allocated, and moreSegments, null (more = FALSE) or the vector
\* builders with the array forOutput.  A SegmentBuilder is here its id, the
\* array MessageBuilder::allocateSegment gave it (arrays are numbered in the
\* order they are allocated), the array's size and pos.

\* new SegmentBuilder(arena, id, ptr, limiter)
SegmentBuilderOver(id, array, size) ==
    [arena |-> TRUE, id |-> id, array |-> array, size |-> size, pos |-> 0]

\* BuilderArena(message): segment0(nullptr, SegmentId(0), nullptr, nullptr)
BuilderArena(S) ==
    [S |-> S, arrays |-> 0,
     segment0 |-> [arena |-> FALSE, id |-> 0, array |-> 0, size |-> 0, pos |-> 0],
     more |-> FALSE, builders |-> <<>>, forOutput |-> <<>>]

\* getSegmentWithAvailable when neither segment0 nor the last builder has
\* room, with every new builder given the id of the one before it
newBuilderSameId(ar, minimumAvailable) ==
    [ar |-> [ar EXCEPT !.more = TRUE, !.arrays = @ + 1,
                       !.builders = Append(@, SegmentBuilderOver(Len(ar.builders),
                                                                 ar.arrays + 1,
                                                                 Max(minimumAvailable, ar.S))),
                       !.forOutput = [i \in 1..(Len(ar.builders) + 2) |->
                                        IF i <= Len(@) THEN @[i] ELSE [array |-> 0, len |-> 0]]],
     at |-> Len(ar.builders) + 1]

\* getSegmentWithAvailable when neither segment0 nor the last builder has
\* room: a new SegmentBuilder with id builders.size() + 1 is pushed back and
\* forOutput is resized to builders.size() + 1
newBuilder(ar, minimumAvailable) ==
    [ar |-> [ar EXCEPT !.more = TRUE, !.arrays = @ + 1,
                       !.builders = Append(@, SegmentBuilderOver(Len(ar.builders) + 1,
                                                                 ar.arrays + 1,
                                                                 Max(minimumAvailable, ar.S))),
                       !.forOutput = [i \in 1..(Len(ar.builders) + 2) |->
                                        IF i <= Len(@) THEN @[i] ELSE [array |-> 0, len |-> 0]]],
     at |-> Len(ar.builders) + 1]

\* BuilderArena::getSegmentWithAvailable(minimumAvailable): the arena and the
\* segment returned (at: 0 for &segment0, k for builders[k - 1].get())
arenaSegmentWithAvailable(ar, minimumAvailable) ==
    IF ~ar.segment0.arena
    THEN [ar |-> [ar EXCEPT !.arrays = @ + 1,
                            !.segment0 = SegmentBuilderOver(0, ar.arrays + 1,
                                                            Max(minimumAvailable, ar.S))],
          at |-> 0]
    ELSE IF ar.segment0.size - ar.segment0.pos >= minimumAvailable THEN [ar |-> ar, at |-> 0]
    ELSE IF ar.more /\ ar.builders[Len(ar.builders)].size - ar.builders[Len(ar.builders)].pos
                         >= minimumAvailable
    THEN [ar |-> ar, at |-> Len(ar.builders)]
    ELSE newBuilder(ar, minimumAvailable)

\* SegmentBuilder::currentlyAllocated: arrayPtr(ptr.begin(), pos - ptr.begin())
allocatedPrefix(sb) == [array |-> sb.array, len |-> sb.pos]

\* BuilderArena::getSegmentsForOutput
arenaSegmentsForOutput(ar) ==
    IF ~ar.more
    THEN IF ~ar.segment0.arena THEN <<>> ELSE <<allocatedPrefix(ar.segment0)>>
    ELSE [i \in 1..Len(ar.forOutput) |->
            IF i = 1 THEN allocatedPrefix(ar.segment0)
            ELSE IF i - 1 <= Len(ar.builders) THEN allocatedPrefix(ar.builders[i - 1])
            ELSE ar.forOutput[i]]

\* calls on the arena in one run, and the most words asked for at once
MaxArenaOps == 5

MaxAvailable == 3

\* segment sizes of the message builder
ArenaSegmentSizes == {0, 2, 4}

InitSegments ==
    /\ \E S \in ArenaSegmentSizes :
         bd = [pc |-> "segments", ar |-> BuilderArena(S), created |-> <<>>, op |-> "none",
               out |-> <<>>, n |-> 0]
    /\ pk = Off /\ rd = Off /\ fr = Off

\* the segment at `at` after allocate(amount) on it
AllocatedFrom(ar, at, amount) ==
    IF at = 0 THEN [ar EXCEPT !.segment0.pos = @ + amount]
    ELSE [ar EXCEPT !.builders[at].pos = @ + amount]

\* getSegmentWithAvailable(minimumAvailable)->allocate(amount), as the
\* allocating callers do, with amount no more than was asked to be available;
\* created keeps the ids of the segments in the order they were made
GetSegmentWithAvailable ==
    /\ bd.pc = "segments" /\ bd.n < MaxArenaOps
    /\ \E minimumAvailable \in 1..MaxAvailable :
       \E amount \in 0..minimumAvailable :
       \E g \in {arenaSegmentWithAvailable(bd.ar, minimumAvailable)} :
         bd' = [bd EXCEPT !.ar = AllocatedFrom(g.ar, g.at, amount),
                          !.created = IF g.ar.arrays = bd.ar.arrays THEN @
                                      ELSE Append(@, IF g.at = 0 THEN g.ar.segment0.id
                                                     ELSE g.ar.builders[g.at].id),
                          !.op = "getSegmentWithAvailable", !.n = @ + 1]
    /\ UNCHANGED <<pk, rd, fr>>

\* getSegmentsForOutput()
GetSegmentsForOutput ==
    /\ bd.pc = "segments" /\ bd.n < MaxArenaOps
    /\ bd' = [bd EXCEPT !.out = arenaSegmentsForOutput(bd.ar),
                        !.ar.forOutput = IF bd.ar.more THEN arenaSegmentsForOutput(bd.ar) ELSE @,
                        !.op = "getSegmentsForOutput", !.n = @ + 1]
    /\ UNCHANGED <<pk, rd, fr>>

NextSegments == GetSegmentWithAvailable \/ GetSegmentsForOutput

SpecSegments == InitSegments /\ [][NextSegments]_vars

\* the SegmentBuilders of the arena
SegmentsOfArena ==
    (IF bd.ar.segment0.arena THEN {bd.ar.segment0} ELSE {})
      \cup {bd.ar.builders[k] : k \in 1..Len(bd.ar.builders)}

\* C36: the ids of the segments are 0, 1, ..., k - 1 in the order the
\* segments were created, and getSegmentsForOutput returns k entries, entry i
\* being the allocated prefix [start, pos) of the segment with id i; it
\* returns nothing when no segment was ever allocated.
C36_SegmentsInIdOrder ==
    bd.pc = "segments" =>
        /\ bd.created = [i \in 1..Len(bd.created) |-> i - 1]
        /\ {s.id : s \in SegmentsOfArena} = 0..(Len(bd.created) - 1)
        /\ Cardinality(SegmentsOfArena) = Len(bd.created)
        /\ bd.op = "getSegmentsForOutput" =>
             /\ Len(bd.out) = Len(bd.created)
             /\ \A s \in SegmentsOfArena : bd.out[s.id + 1] = [array |-> s.array, len |-> s.pos]

\* three segments were made, each holds words, and the table was returned
C36_Witness ==
    /\ bd.pc = "segments" /\ bd.op = "getSegmentsForOutput"
    /\ Len(bd.created) = 3 /\ Len(bd.out) = 3
    /\ \A i \in 1..3 : bd.out[i].len > 0
    /\ bd.out[2].len # bd.out[3].len

\* ---------------------------------------------------------------------------
\* Verbatim runs in the packer's output

\* byte k (from 1) of a stream, or -1 past its end
StreamByte(s, k) == IF k \in 1..Len(s) THEN s[k] ELSE -1

\* the n bytes of s after offset o
Slice(s, o, n) == [k \in 1..n |-> StreamByte(s, o + k)]

\* number of bits set in a tag byte
TagBits(tag) == Cardinality({b \in 0..7 : (tag \div (2 ^ b)) % 2 = 1})

RECURSIVE verbatimRuns(_, _, _)
\* the verbatim runs of a packed stream s, found by walking it tag by tag from
\* stream offset o while counting the input words it stands for from input
\* offset i: each run is recorded with the input offset of the word after the
\* 0xff word, its count byte and the bytes that follow the count byte
verbatimRuns(s, i, o) ==
    IF o >= Len(s) THEN {}
    ELSE LET tag == StreamByte(s, o + 1)
         IN  IF tag = 0
               THEN LET c == Max(StreamByte(s, o + 2), 0)
                    IN  CHOOSE res \in {verbatimRuns(s, i2, o + 2) :
                                          i2 \in {i + BYTES_PER_WORD * (c + 1)}} : TRUE
             ELSE IF tag = 255
               THEN LET c == Max(StreamByte(s, o + 10), 0)
                        run == [at |-> i + BYTES_PER_WORD, count |-> StreamByte(s, o + 10),
                                words |-> Slice(s, o + 10, BYTES_PER_WORD * c)]
                    IN  CHOOSE res \in {{run} \cup verbatimRuns(s, i2, o + 10 + BYTES_PER_WORD * c) :
                                          i2 \in {i + BYTES_PER_WORD * (c + 1)}} : TRUE
             ELSE CHOOSE res \in {verbatimRuns(s, i2, o + 1 + TagBits(tag)) :
                                    i2 \in {i + BYTES_PER_WORD}} : TRUE

\* the words of src from byte offset p that a verbatim run takes: those before
\* the first word with two or more zero bytes, the end of src, or the cap
FollowingWords(src, p) ==
    LET ends == {j \in 0..(RunCap - 1) :
                   \/ p + BYTES_PER_WORD * (j + 1) > Len(src)
                   \/ ZeroBytes(WordAt(src, p + BYTES_PER_WORD * j)) >= 2}
    IN  IF ends = {} THEN RunCap ELSE FirstOf(ends)

\* C37: in the packer's output every word with tag 0xff is followed by one
\* count byte c <= 255 that is the number of input words directly after it up to
\* the first word with two or more zero bytes, the end of the input or the
\* 255-word cap, and then by exactly those c words verbatim, whatever the size
\* of the write buffer the encoder was given.
C37_VerbatimRunCount ==
    pk.pc = "written" =>
      \A run \in verbatimRuns(pk.stream, 0, 0) :
        /\ run.count \in 0..RunCap
        /\ run.count = FollowingWords(pk.src, run.at)
        /\ run.words = Slice(pk.src, run.at, BYTES_PER_WORD * run.count)
        /\ TagOf(WordAt(pk.src, run.at - BYTES_PER_WORD)) = 255

\* a message with more than 255 incompressible words was written through a
\* write buffer too small for any run: one run stops at the cap, the next one
\* at the end of the input
C37_Witness ==
    /\ pk.pc = "written"
    /\ pk.B < FastPathBytes
    /\ \E r1, r2 \in verbatimRuns(pk.stream, 0, 0) :
         /\ r1.count = RunCap
         /\ r2.at > r1.at
         /\ r2.count = 1
         /\ r2.at + BYTES_PER_WORD = Len(pk.src)

\* ---------------------------------------------------------------------------
\* PackedInputStream::skip, next to a read of the same number of bytes

\* inner.skip(n) from stream position ipos: the inner stream consumes what
\* inner.read(scratch, n) consumes, and reports the error past the end of the
\* stream as inner.read does
InnerSkip(s, ipos, n) ==
    [ipos |-> Min(Len(s), ipos + n), err |-> ipos + n > Len(s)]

\* skip(): one round of the bounds-checked loop, for byte i of the word
SkipSlowByte(s, C, r, tag, i) ==
    IF Bit(tag, i) = 1
      THEN LET r1 == IF r.bend - r.in = 0 THEN RefreshBuffer(s, C, r, 0) ELSE r
           IN  IF r1.done THEN r1 ELSE [r1 EXCEPT !.in = @ + 1]
      ELSE r

RECURSIVE SkipSlowBytes(_, _, _, _, _)
\* skip(): for (uint i = 0; i < 8; i++) with a bounds check on each byte; a
\* failed refresh returns from skip()
SkipSlowBytes(s, C, r, tag, i) ==
    IF r.done \/ i = 8 THEN r
    ELSE CHOOSE res \in {SkipSlowBytes(s, C, r2, t, j) :
                           r2 \in {SkipSlowByte(s, C, r, tag, i)}, t \in {tag},
                           j \in {i + 1}} : TRUE

\* skip(): the end of an iteration reached without `continue`
EndOfSkip(r) ==
    IF r.bytes = 0 THEN Return([r EXCEPT !.ipos = r.in], 0) ELSE r

\* skip(): if (tag == 0) { ... }, r1 being the state after the word's bytes
ZeroSkip(s, r1) ==
    LET runLength == s[r1.in + 1] * BYTES_PER_WORD
        r2 == [r1 EXCEPT !.in = @ + 1]
    IN  IF ~(runLength <= r2.bytes)
          THEN Fail(r2, 0)
          ELSE EndOfSkip([r2 EXCEPT !.bytes = @ - runLength])

\* the verbatim run of skip() forwarding only the rest of the run to the
\* inner stream, without the buffer it is in
VerbatimSkipRunOnly(s, C, r1) ==
    LET runLength == s[r1.in + 1] * BYTES_PER_WORD
        r2 == [r1 EXCEPT !.in = @ + 1]
        inRemaining == r2.bend - r2.in
    IN  IF ~(runLength <= r2.bytes)
          THEN Fail(r2, 0)
        ELSE IF inRemaining > runLength
          THEN EndOfSkip([r2 EXCEPT !.bytes = @ - runLength, !.in = @ + runLength])
          ELSE LET sk == InnerSkip(s, r2.bstart, runLength - inRemaining)
                   r3 == [r2 EXCEPT !.bytes = @ - runLength, !.ipos = sk.ipos,
                                    !.err = @ \/ sk.err]
               IN  IF r3.bytes = 0
                     THEN Return(r3, 0)
                     ELSE [r3 EXCEPT !.bstart = sk.ipos,
                                     !.bend = ReadBufferEnd(s, sk.ipos, C),
                                     !.in = sk.ipos]

\* skip(): else if (tag == 0xffu) { ... }
VerbatimSkip(s, C, r1) ==
    LET runLength == s[r1.in + 1] * BYTES_PER_WORD
        r2 == [r1 EXCEPT !.in = @ + 1]
        inRemaining == r2.bend - r2.in
    IN  IF ~(runLength <= r2.bytes)
          THEN Fail(r2, 0)
        ELSE IF inRemaining > runLength
          THEN \* fast path
               EndOfSkip([r2 EXCEPT !.bytes = @ - runLength, !.in = @ + runLength])
          ELSE \* forward skip to the underlying stream
               LET sk == InnerSkip(s, r2.bstart,
                                   (r2.bend - r2.bstart) + (runLength - inRemaining))
                   r3 == [r2 EXCEPT !.bytes = @ - runLength, !.ipos = sk.ipos,
                                    !.err = @ \/ sk.err]
               IN  IF r3.bytes = 0
                     THEN Return(r3, 0)
                     ELSE [r3 EXCEPT !.bstart = sk.ipos,
                                     !.bend = ReadBufferEnd(s, sk.ipos, C),
                                     !.in = sk.ipos]

\* skip(): the rest of an iteration once the tag and the word's bytes are
\* passed
AfterSkippedBytes(s, C, r1, tag) ==
    IF r1.done THEN r1
    ELSE IF tag = 0 THEN ZeroSkip(s, r1)
    ELSE IF tag = 255 THEN VerbatimSkip(s, C, r1)
    ELSE EndOfSkip(r1)

\* skip(): the word's bytes on the bounds-checked path, bytes -= 8, and the
\* refresh before a run's count byte
SkipSlowWord(s, C, r0, tag) ==
    CHOOSE res \in {IF q.done THEN q
                    ELSE IF q.bend - q.in = 0 /\ (tag = 0 \/ tag = 255)
                      THEN RefreshBuffer(s, C, [q EXCEPT !.bytes = @ - BYTES_PER_WORD], 0)
                      ELSE [q EXCEPT !.bytes = @ - BYTES_PER_WORD] :
                    q \in {SkipSlowBytes(s, C, r0, tag, 0)}} : TRUE

\* one iteration of the for (;;) loop of PackedInputStream::skip
SkipWord(s, C, r) ==
    IF r.bend - r.in = 0
      THEN RefreshBuffer(s, C, r, 0)
    ELSE CHOOSE res \in {AfterSkippedBytes(s, C, r1, s[r.in + 1]) :
                           r1 \in {IF r.bend - r.in < FastPathBytes
                                     THEN SkipSlowWord(s, C, [r EXCEPT !.in = @ + 1], s[r.in + 1])
                                     ELSE [r EXCEPT !.in = @ + 1 + BitsBelow(s[r.in + 1], 8),
                                                    !.bytes = @ - BYTES_PER_WORD]}} :
           TRUE

RECURSIVE SkipLoop(_, _, _)
\* the for (;;) loop of PackedInputStream::skip
SkipLoop(s, C, r) ==
    IF r.done THEN r
    ELSE CHOOSE res \in {SkipLoop(s, C, r2) : r2 \in {SkipWord(s, C, r)}} : TRUE

\* PackedInputStream::skip(bytes) on an inner stream holding s, positioned at
\* ipos, with read buffers of C bytes.  Result: err = a validation error was
\* recorded, ipos = the inner stream's position afterwards.
PackedSkip(s, C, ipos0, bytes) ==
    LET r == [ipos |-> ipos0, bstart |-> ipos0, bend |-> ReadBufferEnd(s, ipos0, C),
              in |-> ipos0, bytes |-> bytes, err |-> FALSE, ret |-> 0, done |-> FALSE]
    IN  IF bytes = 0 THEN Return(r, 0) ELSE SkipLoop(s, C, r)

\* packed inputs that end early: every prefix of the inputs written by hand
CutPacked == UNION {{SubSeq(s, 1, k) : k \in 0..Len(s)} : s \in HandPacked}

\* the packed inputs skipped over
SkipInputs(from) ==
    IF from = "packer" THEN PackerOutputs
    ELSE IF from = "hand" THEN HandPacked
    ELSE CutPacked

\* two PackedInputStreams over the same packed input and the same read-buffer
\* size: one is asked to skip n bytes, the other to read n bytes
InitSkip ==
    /\ \E from \in {"packer", "hand", "cut"}, C \in SplitSizes, n \in 0..(MaxPackWords + 1) :
         \E s \in SkipInputs(from) :
            pk = [pc |-> "skip", from |-> from, stream |-> s, C |-> C,
                  n |-> n * BYTES_PER_WORD,
                  read |-> [done |-> FALSE], skip |-> [done |-> FALSE]]
    /\ rd = Off /\ bd = Off /\ fr = Off

\* PackedInputStream::skip(n) on the first stream
Skip ==
    /\ pk.pc = "skip" /\ ~pk.skip.done
    /\ \E r \in {PackedSkip(pk.stream, pk.C, 0, pk.n)} :
         pk' = [pk EXCEPT !.skip = [done |-> TRUE, err |-> r.err, ipos |-> r.ipos]]
    /\ UNCHANGED <<rd, bd, fr>>

\* PackedInputStream::read(scratch, n, n) on the second stream
ReadScratch ==
    /\ pk.pc = "skip" /\ ~pk.read.done
    /\ \E r \in {PackedRead(pk.stream, pk.C, 0, pk.n, pk.n)} :
         pk' = [pk EXCEPT !.read = [done |-> TRUE, err |-> r.err, ipos |-> r.ipos]]
    /\ UNCHANGED <<rd, bd, fr>>

NextSkip == Skip \/ ReadScratch

SpecSkip == InitSkip /\ [][NextSkip]_vars

\* C38: skip(n) leaves the inner stream at the position read(scratch, n, n)
\* leaves it at, and reports an error exactly when that read reports one, for
\* every packed input and every size of the inner stream's read buffers.
C38_SkipConsumesAsRead ==
    pk.pc = "skip" /\ pk.skip.done /\ pk.read.done =>
      /\ pk.skip.ipos = pk.read.ipos
      /\ pk.skip.err = pk.read.err

\* a verbatim run that ends exactly at the end of a read buffer was skipped,
\* with more words to skip after it, and both streams stand at the same place
C38_Witness ==
    /\ pk.pc = "skip" /\ pk.skip.done /\ pk.read.done
    /\ ~pk.skip.err
    /\ pk.skip.ipos = Len(pk.stream)
    /\ pk.n > BYTES_PER_WORD
    /\ \E run \in verbatimRuns(pk.stream, 0, 0) :
         /\ run.count > 0
         /\ (run.at - BYTES_PER_WORD) = 0
         /\ \E k \in 1..Len(pk.stream) :
              /\ k % pk.C = 0
              /\ k < Len(pk.stream)
              /\ pk.stream[1] = 255
              /\ k = 10 + BYTES_PER_WORD * run.count

\* ---------------------------------------------------------------------------
\* WirePointer::setKindAndTarget, kind() and target() on one pointer word

\* the offsets a pointer's 30-bit field holds as a signed number
MinOffset == -536870912

MaxOffset == 536870911

\* setKindAndTarget calls made on the pointer
PointerOps == 1

\* word positions in a segment: the first words, and words as far apart as the
\* offset field reaches
PointerPositions ==
    {0, 1, 2, 5, 64, 16384, 536870910, 536870911, 536870912, 536870913, 1073741823}

\* what the pointer word holds before the call
PointerWords ==
    { ZeroWord,
      <<255, 255, 255, 255, 255, 255, 255, 255>>,
      <<6, 0, 0, 128, 1, 0, 2, 0>>,
      <<1, 2, 3, 4, 5, 6, 7, 8>> }

InitPointer ==
    /\ \E p \in PointerPositions, w \in PointerWords :
         bd = [pc |-> "pointer", p |-> p, w |-> w, before |-> w, k |-> 0, t |-> 0, n |-> 0]
    /\ pk = Off /\ rd = Off /\ fr = Off

\* ref->setKindAndTarget(k, t) for a target whose distance from the word after
\* the pointer fits the offset field
SetKindAndTarget ==
    /\ bd.pc = "pointer" /\ bd.n < PointerOps
    /\ \E k \in {STRUCT, LIST, FAR, RESERVED_3}, t \in PointerPositions :
         /\ t - (bd.p + 1) \in MinOffset..MaxOffset
         /\ bd' = [bd EXCEPT !.w = setKindAndTarget(bd.w, bd.p, k, t), !.before = bd.w,
                             !.k = k, !.t = t, !.n = @ + 1]
    /\ UNCHANGED <<pk, rd, fr>>

NextPointer == SetKindAndTarget

SpecPointer == InitPointer /\ [][NextPointer]_vars

\* C40: after setKindAndTarget(k, t) on the pointer at word p, with t - (p + 1)
\* in the signed 30-bit range, kind() is k and target() is t, for offsets below
\* zero as for the others, and bytes 4..7 of the pointer are what they were.
C40_KindAndTargetRoundTrip ==
    bd.pc = "pointer" /\ bd.n > 0 =>
      /\ Kind(bd.w) = bd.k
      /\ Target(bd.p, bd.w) = bd.t
      /\ SubSeq(bd.w, 5, 8) = SubSeq(bd.before, 5, 8)

\* the most negative offset was stored over a pointer whose two halves were
\* both set, with a kind other than zero
C40_Witness ==
    /\ bd.pc = "pointer" /\ bd.n > 0
    /\ bd.t - (bd.p + 1) = MinOffset
    /\ bd.k = RESERVED_3
    /\ SubSeq(bd.before, 5, 8) = <<5, 6, 7, 8>>
    /\ Target(bd.p, bd.w) = bd.t

=============================================================================
